---- MODULE Spec2Model ----
(***************************************************************************)
(* State-machine model of the gchat_integration addon: the webhook         *)
(* ingress and event router (controllers/gchat_webhook.py,                 *)
(* models/gchat_event_log.py), the Pub/Sub listener                        *)
(* (listener/listener.py) and the OAuth credential manager / API gateway   *)
(* (models/gchat_config.py).                                               *)
(***************************************************************************)
EXTENDS Integers, Sequences, FiniteSets, TLC

VARIABLES
    events,      \* gchat.event.log table: external_event_id -> record or NoEvent
    members,     \* gchat.member table: set of records
    comments,    \* mail.message records created on tasks: sequence of records
    spaces,      \* gchat.space table
    threads,     \* gchat.thread table
    taskProject, \* project.task table: task -> its project_id, or NoProject
    syncEnabled, \* project.project: gchat_sync_enabled per project
    lastMap,     \* history: the last mapper operation and its outcome
    applied,     \* history: number of domain side effects applied per event id
    delivered,   \* history: number of authenticated, decodable deliveries per id
    trans,       \* history: every status change <<from, to, operation>>
    lastCall,    \* history: the last webhook call and its response
    queue,       \* Pub/Sub subscription: per message id its delivery state
    listenerToken, \* --token of the listener process
    cred,        \* gchat.config record (OAuth fields)
    now,         \* fields.Datetime.now(), in minutes
    nextTok,     \* the provider's next access token
    pc,          \* per worker: position inside _request / send_chat
    call,        \* per worker: locals and history of the call in progress
    fatal,       \* history: invalid_grant seen and no re-authorization since
    txn,         \* per worker: the open database transaction of a pipeline call
    ver,         \* per event id: the committed version of its gchat.event.log row
    served,      \* history: per event id, the row versions committed dispatches read
    sent,        \* history: the requests send_chat posted for a thread, in order
    message_count,   \* gchat.thread.message_count per thread id
    last_message_id, \* gchat.thread.last_message_id per thread id
    lastPush,    \* history: the last operation that may push a task update
    cred2,       \* the gchat.config record of a second company (OAuth fields)
    oauthFlow,   \* the state parameter of the authorization request under way
    subs,        \* gchat.subscription: per gchat.space id its subscription, or NoSub
    day,         \* datetime.now(), in days
    warned,      \* the spaces whose subscription the cron logged as expiring
    listener,    \* the listener process: listening, cancelled, closed
    inflight,    \* the message ids whose callback is running
    handed,      \* history: per message id, the callbacks started for it
    taskName     \* project.task: the name of each task

ingressVars == <<events, members, comments, applied, delivered, trans, lastCall>>
mapVars == <<spaces, threads, taskProject, syncEnabled, lastMap>>
listenerVars == <<queue, listenerToken>>
credVars == <<cred, now, nextTok, pc, call, fatal>>
txnVars == <<txn, ver, served>>
outVars == <<sent, message_count, last_message_id, lastPush>>
authVars == <<cred2, oauthFlow>>
subVars == <<subs, day, warned>>
stopVars == <<listener, inflight, handed>>
extVars == <<authVars, subVars, stopVars, taskName>>
vars == <<events, members, comments, spaces, threads, taskProject, syncEnabled,
          lastMap, applied, delivered, trans,
          lastCall, queue, listenerToken, cred, now, nextTok, pc, call, fatal,
          txn, ver, served, sent, message_count, last_message_id, lastPush,
          cred2, oauthFlow, subs, day, warned, listener, inflight, handed, taskName>>

(***************************************************************************)
(* Bounds of the model                                                     *)
(***************************************************************************)
MaxDeliveries == 2
MaxAttempts == 2
MaxTime == 4
MaxTokens == 3
MaxCommits == 2
MaxSends == 2
MaxDay == 9

(***************************************************************************)
(* JSON values.  A missing key and a JSON null are told apart because      *)
(* dict.get(key, default) returns the default only for a missing key.      *)
(***************************************************************************)
Absent == "<absent>"
Null == "<null>"

Ids == {"m1", "m2"}

\* The payloads the deliveries draw from: one per dispatch case.
Payload(t, sp, th, em, tx, me, mr, mn) ==
    [eventType |-> t, space |-> sp, thread |-> th, email |-> em, text |-> tx,
     card |-> Absent, mEmail |-> me, mRole |-> mr, mName |-> mn]

ThreadK1 == <<"spaces", "A", "threads", "1">>
UserName == <<"users", "42">>
NoName == <<>>

PMsg == Payload("MESSAGE_CREATED", "spaces/A", ThreadK1, "u1@x.com", "hi", Absent, Absent, NoName)
PMsgNoThread ==
    [Payload("MESSAGE_UPDATED", "spaces/A", NoName, "u1@x.com", Absent, Absent, Absent, NoName)
        EXCEPT !.card = "title"]
PAdd == Payload("MEMBER_ADDED", "spaces/A", NoName, Absent, Absent, "a@x.com", "MEMBER", UserName)
PAddNullName == Payload("MEMBER_ADDED", "spaces/A", NoName, Absent, Absent, "a@x.com", "OWNER", <<Null>>)
PRemove == Payload("MEMBER_REMOVED", "spaces/A", NoName, Absent, Absent, "a@x.com", Absent, NoName)
PUnknown == Payload(Absent, "spaces/A", NoName, Absent, Absent, Absent, Absent, NoName)
PNullSpace == Payload("MESSAGE_CREATED", Null, ThreadK1, "u1@x.com", "hi", Absent, Absent, NoName)

PMsgNoEmail == Payload("MESSAGE_CREATED", "spaces/A", ThreadK1, Absent, "hi", Absent, Absent, NoName)
PMsgStranger ==
    Payload("MESSAGE_UPDATED", "spaces/A", ThreadK1, "who@y.com", "hi", Absent, Absent, NoName)
POtherNullSpace ==
    Payload("ADDED_TO_SPACE", Null, NoName, Absent, Absent, Absent, Absent, NoName)

Payloads ==
    {PMsg, PMsgNoThread, PMsgNoEmail, PMsgStranger, PAdd, PAddNullName, PRemove, PUnknown,
     PNullSpace, POtherNullSpace}

(***************************************************************************)
(* Text, bytes and base64 strings.  An encoding wraps its argument, a      *)
(* decoding unwraps it and fails on a value that is not an encoding.       *)
(* A JSON text also has a layout: indent 0 is the compact text a publisher *)
(* sends, indent 2 is what json.dumps(..., indent=2) writes.               *)
(***************************************************************************)
\* Mutant: the serializer drops the message text.
json_dumps_Lossy(v) ==
    [valid |-> TRUE, obj |-> TRUE, value |-> [v EXCEPT !.text = Absent], indent |-> 2]

json_dumps(v) == [valid |-> TRUE, obj |-> TRUE, value |-> v, indent |-> 2]
CompactJson(v) == [valid |-> TRUE, obj |-> TRUE, value |-> v, indent |-> 0]
JsonArrayText == [valid |-> TRUE, obj |-> FALSE, value |-> PUnknown, indent |-> 0]
GarbageText == [valid |-> FALSE, obj |-> FALSE, value |-> PUnknown, indent |-> 0]
json_loads(t) == [ok |-> t.valid, obj |-> t.obj, value |-> t.value]

utf8_encode(t) == [utf8 |-> TRUE, text |-> t]
GarbageBytes == [utf8 |-> FALSE, text |-> GarbageText]
utf8_decode(b) == [ok |-> b.utf8, text |-> b.text]

\* A base64 string: padded says its alphabet characters form whole, correctly
\* padded groups; clean says it holds no character outside the alphabet.
b64encode(b) == [present |-> TRUE, padded |-> TRUE, clean |-> TRUE, bytes |-> b]
\* An encoding with characters outside the alphabet mixed in ("e3#0=").
DirtyB64(b) == [b64encode(b) EXCEPT !.clean = FALSE]
\* A string whose padding is wrong ("e30").
GarbageB64 == [present |-> TRUE, padded |-> FALSE, clean |-> TRUE, bytes |-> GarbageBytes]
NoData == [present |-> FALSE, padded |-> FALSE, clean |-> TRUE, bytes |-> GarbageBytes]
\* base64.b64decode(s): characters outside the alphabet are discarded before
\* the padding is checked.
b64decode(s) == [ok |-> s.padded, bytes |-> s.bytes]

\* The bytes a Pub/Sub message can carry.
MessageData ==
    {utf8_encode(CompactJson(p)) : p \in Payloads}
        \cup {utf8_encode(JsonArrayText), utf8_encode(GarbageText), GarbageBytes}

\* The envelopes a webhook request can carry.
Envelope(mid, d) == [empty |-> FALSE, message_id |-> mid, data_base64 |-> d]
EmptyBody == [empty |-> TRUE, message_id |-> Absent, data_base64 |-> NoData]
Envelopes ==
    {Envelope(m, b64encode(d)) : m \in Ids, d \in MessageData}
        \cup {Envelope(m, d) : m \in Ids, d \in {GarbageB64, NoData}}
        \cup {Envelope(m, DirtyB64(utf8_encode(CompactJson(PMsg)))) : m \in Ids}
        \cup {Envelope(Absent, b64encode(utf8_encode(CompactJson(PMsg))))}
        \cup {EmptyBody}

\* Authorization headers, as the words str.split(' ') yields.
GoodToken == "tokA"
AuthHeaders == {<<>>, <<"Basic", GoodToken>>, <<"Bearer", GoodToken>>, <<"Bearer", "tokX">>}

\* The requests the webhook receives: every envelope with the configured
\* token, and with each other header one envelope of each kind.
ProbeEnvelopes ==
    {Envelope(m, b64encode(utf8_encode(CompactJson(p)))) : m \in Ids, p \in {PMsg, PAdd}}
        \cup {Envelope("m1", GarbageB64), Envelope(Absent, b64encode(utf8_encode(CompactJson(PMsg)))),
              EmptyBody}
Requests ==
    {[auth |-> <<"Bearer", GoodToken>>, body |-> e] : e \in Envelopes}
        \cup {[auth |-> a, body |-> e] : a \in AuthHeaders, e \in ProbeEnvelopes}

Response(b, c) == [body |-> b, code |-> c]

(***************************************************************************)
(* gchat.event.log                                                         *)
(***************************************************************************)
NoEvent == [exists |-> FALSE]
NoSpace == "<nospace>"
NoText == ""

\* ORM create() with the field defaults of the model.
NewEvent(p, t) ==
    [exists |-> TRUE, status |-> "new", event_type |-> t,
     payload_json |-> json_dumps(p), space_id |-> NoSpace, thread_key |-> NoText,
     user_email |-> NoText, message_text |-> NoText, error |-> NoText,
     processed_at |-> FALSE]

\* dict.get(key, default) for a string-valued key.
Get(v, default) == IF v = Absent THEN default ELSE v

\* name.split('/')[-1] on a name held as its path segments ('' splits to ['']).
LastSegment(name) == IF Len(name) = 0 THEN NoText ELSE name[Len(name)]

\* A value Python treats as false in "if v:" / "not v".
Falsy(v) == v \in {Absent, Null, NoText}

\* res.users, by email.
NoPartner == "<nopartner>"
Users == {[email |-> "u1@x.com", partner_id |-> "partner1"]}

\* The values of the Selection field gchat.member.role; the ORM rejects any other.
RoleSelection == {"ROLE_UNSPECIFIED", "OWNER", "ADMIN", "MEMBER"}

_find_space(sps, space_name) ==
    IF Falsy(space_name) THEN NoSpace
    ELSE LET hit == {s \in sps : s.space_id = space_name /\ s.active}
         IN  IF hit = {} THEN NoSpace ELSE (CHOOSE s \in hit : TRUE).id

\* The set of matching threads: empty or, thread_key being unique, a singleton.
_find_thread(ths, space, thread_name) ==
    IF space = NoSpace \/ Len(thread_name) = 0 THEN {}
    ELSE {t \in ths : /\ t.space_id = space
                      /\ t.thread_key = LastSegment(thread_name)
                      /\ t.active}

_extract_message_text(ej) ==
    IF ~Falsy(ej.text) THEN ej.text
    ELSE IF ~Falsy(ej.card) THEN ej.card
    ELSE NoText

\* What a handler leaves behind: the tables, whether it raised, and how many
\* domain side effects (comment, member upsert) it applied.
Handled(mem, com, n) == [raised |-> FALSE, members |-> mem, comments |-> com, effect |-> n]
Raised(mem, com) == [raised |-> TRUE, members |-> mem, comments |-> com, effect |-> 0]

\* Mutant: the comment is created without looking the author up.
_process_message_created_NoAuthor(ev, mem, com, ths) ==
    LET hit == {t \in ths : t.thread_key = ev.thread_key /\ t.active}
    IN  IF ev.thread_key = NoText \/ hit = {} THEN Handled(mem, com, 0)
        ELSE IF ev.message_text = NoText \/ ev.user_email = NoText
             THEN Handled(mem, com, 0)
        ELSE Handled(mem,
                     Append(com, [res_id |-> (CHOOSE t \in hit : TRUE).task_id,
                                  author_id |-> NoPartner,
                                  email_from |-> ev.user_email,
                                  body |-> ev.message_text]),
                     1)

_process_message_created(ev, mem, com, ths) ==
    LET hit == {t \in ths : t.thread_key = ev.thread_key /\ t.active}
        user == {u \in Users : u.email = ev.user_email}
    IN  IF ev.thread_key = NoText \/ hit = {} THEN Handled(mem, com, 0)
        ELSE IF ev.message_text = NoText \/ ev.user_email = NoText
             THEN Handled(mem, com, 0)
        ELSE Handled(mem,
                     Append(com, [res_id |-> (CHOOSE t \in hit : TRUE).task_id,
                                  author_id |-> IF user = {} THEN NoPartner
                                                ELSE (CHOOSE u \in user : TRUE).partner_id,
                                  email_from |-> ev.user_email,
                                  body |-> ev.message_text]),
                     1)

_process_message_updated(ev, mem, com, ths) == _process_message_created(ev, mem, com, ths)

_process_member_added(ev, ej, mem, com) ==
    LET email == Get(ej.mEmail, NoText)
        role == Get(ej.mRole, "MEMBER")
        found == {m \in mem : m.space_id = ev.space_id /\ m.email = email}
    IN  IF ev.space_id = NoSpace \/ Falsy(email) THEN Handled(mem, com, 0)
        ELSE IF found = {}
             THEN IF ej.mName = <<Null>> \/ role \notin RoleSelection
                  THEN Raised(mem, com)
                  ELSE Handled(mem \cup {[space_id |-> ev.space_id, email |-> email,
                                          google_user_id |-> LastSegment(ej.mName),
                                          role |-> role, state |-> "active"]},
                               com, 1)
        ELSE IF role \notin RoleSelection THEN Raised(mem, com)
        ELSE Handled((mem \ found)
                        \cup {[m EXCEPT !.role = role, !.state = "active"] : m \in found},
                     com, 1)

_process_member_removed(ev, ej, mem, com) ==
    LET email == Get(ej.mEmail, NoText)
        found == {m \in mem : m.space_id = ev.space_id /\ m.email = email}
    IN  IF ev.space_id = NoSpace \/ Falsy(email) \/ found = {} THEN Handled(mem, com, 0)
        ELSE Handled((mem \ found) \cup {[m EXCEPT !.state = "removed"] : m \in found},
                     com, 1)

\* The result of process_incoming: the record, the tables, the return value,
\* the statuses written in order, and the side effects applied.
Routed(ev, mem, com, ok, writes, n) ==
    [ev |-> ev, members |-> mem, comments |-> com, ok |-> ok, writes |-> writes,
     effect |-> n]

\* Mutant: the except branch records the status but not the exception text.
RouteFailed_NoDetail(ev, mem, com, writes, msg) ==
    Routed([ev EXCEPT !.status = "error", !.processed_at = TRUE],
           mem, com, FALSE, Append(writes, "error"), 0)

\* The except branch of process_incoming.
RouteFailed(ev, mem, com, writes, msg) ==
    Routed([ev EXCEPT !.status = "error", !.error = msg, !.processed_at = TRUE],
           mem, com, FALSE, Append(writes, "error"), 0)

\* The duplicate gate of process_incoming.
AlreadyProcessed(ev) == ev.status \in {"done", "processing"}

process_incoming(ev, ej, mem, com, sps, ths) ==
    IF AlreadyProcessed(ev) THEN Routed(ev, mem, com, TRUE, <<>>, 0)
    ELSE
    LET e1 == [ev EXCEPT !.status = "processing"]
        w1 == <<"processing">>
    IN  IF ej.space = Null
        THEN RouteFailed(e1, mem, com, w1, "'NoneType' object has no attribute 'get'")
        ELSE
        LET event_type == Get(ej.eventType, "UNKNOWN")
            e2 == [e1 EXCEPT !.event_type = event_type,
                             !.user_email = Get(ej.email, NoText),
                             !.message_text = _extract_message_text(ej)]
            space == _find_space(sps, Get(ej.space, NoText))
            thread == _find_thread(ths, space, ej.thread)
            e3 == [e2 EXCEPT !.space_id = IF space # NoSpace THEN space ELSE @,
                             !.thread_key = IF thread # {}
                                            THEN (CHOOSE t \in thread : TRUE).thread_key
                                            ELSE @]
            h == CASE event_type = "MESSAGE_CREATED" ->
                        _process_message_created(e3, mem, com, ths)
                   [] event_type = "MESSAGE_UPDATED" ->
                        _process_message_updated(e3, mem, com, ths)
                   [] event_type = "MEMBER_ADDED" ->
                        _process_member_added(e3, ej, mem, com)
                   [] event_type = "MEMBER_REMOVED" ->
                        _process_member_removed(e3, ej, mem, com)
                   [] OTHER -> Handled(mem, com, 0)
        IN  IF event_type \notin {"MESSAGE_CREATED", "MESSAGE_UPDATED",
                                  "MEMBER_ADDED", "MEMBER_REMOVED"}
            THEN Routed([e3 EXCEPT !.status = "skipped"], mem, com, TRUE,
                        Append(w1, "skipped"), 0)
            ELSE IF h.raised
            THEN RouteFailed(e3, mem, com, w1, "handler raised")
            ELSE Routed([e3 EXCEPT !.status = "done", !.processed_at = TRUE],
                        h.members, h.comments, TRUE, Append(w1, "done"), h.effect)

(***************************************************************************)
(* POST /gchat/webhook                                                     *)
(***************************************************************************)
\* Mutant: the table has no unique(external_event_id) constraint.
UniqueViolation_Off(evs, mid) == FALSE

\* The unique(external_event_id) constraint, as create() meets it.
UniqueViolation(evs, mid) == evs[mid].exists

\* What one request leaves behind.  The pair the handler returns is read as
\* (body, HTTP status), as the listener's status_code test reads it.  accepted: the request was authenticated and
\* decoded, and reached create().  writes: the statuses written, in order.
Handled400(evs, mem, com) ==
    [events |-> evs, members |-> mem, comments |-> com,
     resp |-> Response("BAD_REQUEST", 400), accepted |-> FALSE, writes |-> <<>>,
     effect |-> 0]
Handled401(evs, mem, com) ==
    [Handled400(evs, mem, com) EXCEPT !.resp = Response("UNAUTHORIZED", 401)]
Handled500(evs, mem, com, acc) ==
    [Handled400(evs, mem, com) EXCEPT !.resp = Response("INTERNAL_ERROR", 500),
                                      !.accepted = acc]

\* The response after process_incoming returned.
Outcome(success) == IF success THEN Response("OK", 200) ELSE Response("ERROR", 200)

\* Mutant: any token is taken for the configured one.
TokenMatches_Any(cfg, token) == TRUE

\* The search for an active configuration with the request's token.
TokenMatches(cfg, token) == cfg.is_active /\ cfg.webhook_token = token

gchat_webhook(req, evs, mem, com, sps, ths, cfg) ==
    LET data == req.body
        b == b64decode(data.data_base64)
        t == utf8_decode(b.bytes)
        j == json_loads(t.text)
        r == process_incoming(NewEvent(j.value, Get(j.value.eventType, "UNKNOWN")),
                              j.value, mem, com, sps, ths)
    IN  IF data.empty THEN Handled400(evs, mem, com)
        ELSE IF Len(req.auth) < 2 \/ req.auth[1] # "Bearer" THEN Handled401(evs, mem, com)
        ELSE IF ~TokenMatches(cfg, req.auth[2]) THEN Handled401(evs, mem, com)
        ELSE IF Falsy(data.message_id) \/ ~data.data_base64.present
             THEN Handled400(evs, mem, com)
        ELSE IF ~b.ok \/ ~t.ok \/ ~j.ok THEN Handled400(evs, mem, com)
        ELSE IF ~j.obj THEN Handled500(evs, mem, com, FALSE)
        ELSE IF UniqueViolation(evs, data.message_id) THEN Handled500(evs, mem, com, TRUE)
        ELSE [events |-> [evs EXCEPT ![data.message_id] = r.ev],
              members |-> r.members, comments |-> r.comments,
              resp |-> Outcome(r.ok), accepted |-> TRUE,
              writes |-> <<"new">> \o r.writes, effect |-> r.effect]

\* The status changes a sequence of status writes makes, tagged with the operation.
Steps(writes, op) ==
    {<<writes[i], writes[i + 1], op>> : i \in 1 .. (Len(writes) - 1)}

StatusOf(evs, mid) ==
    IF mid \in Ids /\ evs[mid].exists THEN evs[mid].status ELSE "none"

\* What a request body is, told from the body itself: the first defect met on
\* the way from the envelope to the event object, or "event".
Shape(e) ==
    IF e.empty THEN "empty"
    ELSE IF e.message_id = Absent THEN "no_message_id"
    ELSE IF ~e.data_base64.present THEN "no_data"
    ELSE IF ~e.data_base64.padded \/ ~e.data_base64.clean THEN "bad_base64"
    ELSE IF ~e.data_base64.bytes.utf8 THEN "bad_utf8"
    ELSE IF ~e.data_base64.bytes.text.valid THEN "bad_json"
    ELSE IF ~e.data_base64.bytes.text.obj THEN "not_object"
    ELSE "event"

\* One request handled by the webhook, with the history it leaves.
Deliver(req) ==
    \E r \in {gchat_webhook(req, events, members, comments, spaces, threads, cred)} :
        LET mid == req.body.message_id
        IN  /\ r.accepted => delivered[mid] < MaxDeliveries
            /\ events' = r.events
            /\ members' = r.members
            /\ comments' = r.comments
            /\ delivered' = IF r.accepted THEN [delivered EXCEPT ![mid] = @ + 1]
                            ELSE delivered
            /\ applied' = IF r.effect > 0 THEN [applied EXCEPT ![mid] = @ + r.effect]
                          ELSE applied
            /\ trans' = trans \cup Steps(r.writes, "webhook")
            /\ lastCall' = [op |-> "webhook", id |-> mid, pre |-> StatusOf(events, mid),
                            accepted |-> r.accepted, resp |-> r.resp,
                            auth |-> req.auth, shape |-> Shape(req.body)]

\* Push mode: the chat service posts to the webhook itself.
WebhookPush ==
    \E req \in Requests :
        /\ Deliver(req)
        /\ UNCHANGED <<mapVars, listenerVars, txnVars, credVars, outVars, extVars>>

(***************************************************************************)
(* gchat.event.log: the operator's retry button                            *)
(***************************************************************************)
\* Mutant: the retry button acts on an event in any status.
RetryGuard_Any(ev) == TRUE

RetryGuard(ev) == ev.status = "error"

action_retry_processing(ev, mem, com, sps, ths) ==
    IF RetryGuard(ev)
    THEN LET r == process_incoming([ev EXCEPT !.status = "new"],
                                   json_loads(ev.payload_json).value,
                                   mem, com, sps, ths)
         IN  [r EXCEPT !.writes = <<ev.status, "new">> \o @]
    ELSE Routed(ev, mem, com, FALSE, <<>>, 0)

RetryProcessing ==
    \E mid \in Ids :
        /\ events[mid].exists
        /\ \E r \in {action_retry_processing(events[mid], members, comments,
                                               spaces, threads)} :
               /\ events' = [events EXCEPT ![mid] = r.ev]
               /\ members' = r.members
               /\ comments' = r.comments
               /\ applied' = IF r.effect > 0 THEN [applied EXCEPT ![mid] = @ + r.effect]
                             ELSE applied
               /\ trans' = trans \cup Steps(r.writes, "retry")
               /\ lastCall' = [op |-> "retry", id |-> mid, pre |-> events[mid].status,
                               accepted |-> TRUE, resp |-> Outcome(r.ok),
                               auth |-> <<>>, shape |-> "none"]
        /\ UNCHANGED <<delivered, mapVars, listenerVars, txnVars, credVars, outVars, extVars>>

(***************************************************************************)
(* listener.py: the Pub/Sub callback                                       *)
(***************************************************************************)
NoMessage == [state |-> "none", data |-> GarbageBytes, attempts |-> 0, acks |-> 0,
              nacks |-> 0, seen |-> "none"]

\* The bytes the chat service publishes in this model.
QueueData ==
    {utf8_encode(CompactJson(p)) : p \in {PMsg, PNullSpace, PUnknown}}
        \cup {utf8_encode(GarbageText), GarbageBytes}

\* The chat service publishes an event to the subscription.
Publish ==
    \E mid \in Ids, d \in QueueData :
        /\ queue[mid].state = "none"
        /\ queue' = [queue EXCEPT ![mid] = [NoMessage EXCEPT !.state = "pending", !.data = d]]
        /\ UNCHANGED <<ingressVars, mapVars, listenerToken, txnVars, credVars, outVars, extVars>>

_format_webhook_payload(mid, d) ==
    LET t == utf8_decode(d)
        j == json_loads(t.text)
    IN  [raised |-> ~t.ok \/ ~j.ok, payload |-> Envelope(mid, b64encode(d))]

\* _send_to_odoo's verdict on a response.
SendOk(resp) == resp.code = 200

\* message.ack(): the message leaves the subscription.
Ack(m, body) ==
    [m EXCEPT !.state = "acked", !.attempts = @ + 1, !.acks = @ + 1, !.seen = body]
\* message.nack(): the message stays, to be redelivered.
Nack(m, body) ==
    [m EXCEPT !.state = "pending", !.attempts = @ + 1, !.nacks = @ + 1, !.seen = body]

\* _message_callback -> _process_message, formatting failed: nack, nothing sent.
ListenerFormatFails ==
    \E mid \in Ids :
        /\ queue[mid].state = "pending"
        /\ queue[mid].attempts < MaxAttempts
        /\ _format_webhook_payload(mid, queue[mid].data).raised
        /\ queue' = [queue EXCEPT ![mid] = Nack(@, "unsent")]
        /\ UNCHANGED <<ingressVars, mapVars, listenerToken, txnVars, credVars, outVars, extVars>>

\* _process_message, the POST raised (timeout, connection error): nack.
ListenerSendFails ==
    \E mid \in Ids :
        /\ queue[mid].state = "pending"
        /\ queue[mid].attempts < MaxAttempts
        /\ ~_format_webhook_payload(mid, queue[mid].data).raised
        /\ queue' = [queue EXCEPT ![mid] = Nack(@, "unsent")]
        /\ UNCHANGED <<ingressVars, mapVars, listenerToken, txnVars, credVars, outVars, extVars>>

\* _process_message, the webhook handled the POST but the listener's request
\* timed out before the response arrived: nack.
ListenerTimesOut ==
    \E mid \in Ids :
        /\ queue[mid].state = "pending"
        /\ queue[mid].attempts < MaxAttempts
        /\ LET f == _format_webhook_payload(mid, queue[mid].data)
           IN  /\ ~f.raised
               /\ Deliver([auth |-> <<"Bearer", listenerToken>>, body |-> f.payload])
               /\ queue' = [queue EXCEPT ![mid] = Nack(@, "unseen")]
        /\ UNCHANGED <<mapVars, listenerToken, txnVars, credVars, outVars, extVars>>

\* _process_message, the POST reached the webhook: ack on 200, nack otherwise.
ListenerForwards ==
    \E mid \in Ids :
        /\ queue[mid].state = "pending"
        /\ queue[mid].attempts < MaxAttempts
        /\ LET f == _format_webhook_payload(mid, queue[mid].data)
               req == [auth |-> <<"Bearer", listenerToken>>, body |-> f.payload]
           IN  /\ ~f.raised
               /\ Deliver(req)
               /\ queue' = [queue EXCEPT ![mid] =
                               IF SendOk(lastCall'.resp) THEN Ack(@, lastCall'.resp.body)
                               ELSE Nack(@, lastCall'.resp.body)]
        /\ UNCHANGED <<mapVars, listenerToken, txnVars, credVars, outVars, extVars>>

(***************************************************************************)
(* listener.py: callbacks as threads, and shutdown.  The subscriber runs   *)
(* each callback in a worker thread; the main thread waits in              *)
(* start_listening until it is interrupted.                                *)
(***************************************************************************)
\* Mutant: _process_message issuing nothing when the send failed.
_process_message_SilentFailure(raised, success) ==
    IF raised THEN <<"nack">> ELSE IF success THEN <<"ack">> ELSE <<>>

\* _process_message / _message_callback: the acknowledgement calls made on the
\* message, given whether formatting raised and what _send_to_odoo returned.
_process_message(raised, success) ==
    IF raised THEN <<"nack">> ELSE IF success THEN <<"ack">> ELSE <<"nack">>

\* The calls among calls that are c.
CountOf(calls, c) == Cardinality({i \in 1 .. Len(calls) : calls[i] = c})

\* The message after the callback made its calls: once the subscriber is
\* closed a call is still made but no longer reaches the subscription.
Settle(m, calls, body, open) ==
    [m EXCEPT !.state = IF open /\ CountOf(calls, "ack") > 0 THEN "acked" ELSE "pending",
              !.attempts = @ + 1,
              !.acks = @ + CountOf(calls, "ack"),
              !.nacks = @ + CountOf(calls, "nack"),
              !.seen = body]

\* The subscriber hands a message to _message_callback on a worker thread.
CallbackStarts(mid) ==
    /\ listener = "listening"
    /\ queue[mid].state = "pending"
    /\ queue[mid].attempts < MaxAttempts
    /\ mid \notin inflight
    /\ inflight' = inflight \cup {mid}
    /\ handed' = [handed EXCEPT ![mid] = @ + 1]
    /\ UNCHANGED <<listener, ingressVars, mapVars, listenerVars, txnVars, credVars, outVars,
                   authVars, subVars,
                   taskName>>

\* The callback runs to its end: formatting raised, or the POST failed before
\* it reached the webhook, or the webhook handled it and the response was
\* lost, or the response arrived.
CallbackCompletes(mid) ==
    /\ mid \in inflight
    /\ LET f == _format_webhook_payload(mid, queue[mid].data)
           req == [auth |-> <<"Bearer", listenerToken>>, body |-> f.payload]
           open == listener # "closed"
       IN  \/ /\ f.raised
              /\ queue' = [queue EXCEPT ![mid] =
                              Settle(@, _process_message(TRUE, FALSE), "unsent", open)]
              /\ UNCHANGED ingressVars
           \/ /\ ~f.raised
              /\ queue' = [queue EXCEPT ![mid] =
                              Settle(@, _process_message(FALSE, FALSE), "unsent", open)]
              /\ UNCHANGED ingressVars
           \/ /\ ~f.raised
              /\ Deliver(req)
              /\ queue' = [queue EXCEPT ![mid] =
                              Settle(@, _process_message(FALSE, FALSE), "unseen", open)]
           \/ /\ ~f.raised
              /\ Deliver(req)
              /\ queue' = [queue EXCEPT ![mid] =
                              Settle(@, _process_message(FALSE, SendOk(lastCall'.resp)),
                                     lastCall'.resp.body, open)]
    /\ inflight' = inflight \ {mid}
    /\ UNCHANGED <<listener, handed, listenerToken, mapVars, txnVars, credVars, outVars,
                   authVars, subVars,
                   taskName>>

\* KeyboardInterrupt in start_listening: streaming_pull_future.cancel(), and
\* start_listening returns.  No callback is started after it.
KeyboardInterrupt ==
    /\ listener = "listening"
    /\ listener' = "cancelled"
    /\ UNCHANGED <<inflight, handed, ingressVars, mapVars, listenerVars, txnVars, credVars,
                   outVars, authVars, subVars,
                   taskName>>

\* main's finally: listener.stop() closes the subscriber.
stop ==
    /\ listener = "cancelled"
    /\ listener' = "closed"
    /\ UNCHANGED <<inflight, handed, ingressVars, mapVars, listenerVars, txnVars, credVars,
                   outVars, authVars, subVars,
                   taskName>>

(***************************************************************************)
(* gchat.config: the OAuth credential and the API gateway.  Time is in     *)
(* minutes.  A worker is one Odoo request (transaction) calling into the   *)
(* configuration record; a worker's steps are the stretches of code        *)
(* between two external HTTP calls.                                        *)
(***************************************************************************)
Procs == {"w1", "w2"}

\* relativedelta(minutes=5) of _is_expired
Margin == 5
\* The lifetimes (expires_in, in minutes) the provider grants in this model:
\* one within the safety margin, one beyond it.
Lifetimes == {3, 8}

\* An unset Char field (False), and the refresh token the provider issued.
NoToken == 0
RefreshTok == 1
\* An unset Datetime field, and one set to minute t.
NoExpiry == [set |-> FALSE, at |-> 0]
Expiry(t) == [set |-> TRUE, at |-> t]

\* Mutant: the expiry test without the safety margin.
_is_expired_NoMargin(c, t) ==
    IF ~c.token_expiry.set THEN TRUE ELSE t >= c.token_expiry.at

_is_expired(c, t) ==
    IF ~c.token_expiry.set THEN TRUE ELSE t >= c.token_expiry.at - Margin

\* The condition of _ensure_access_token.
NeedsRefresh(c, t) == c.access_token = NoToken \/ _is_expired(c, t)

\* Mutant: _refresh_token without its guard.
CanRefresh_Always(c) == TRUE

\* The guard of _refresh_token.
CanRefresh(c) == c.refresh_token # NoToken

\* refresh_if_needed: both branches leave the credential as it is.
refresh_if_needed(c, t) ==
    IF c.auth_mode = "oauth" /\ c.token_expiry.set THEN c ELSE c

\* The write of _refresh_token after the provider answered with a token.
StoreRefreshed(c, tok, life, t) ==
    [c EXCEPT !.access_token = tok, !.token_expiry = Expiry(t + life)]

\* The locals and the history of a call: the token in the Authorization header,
\* the HTTP requests sent, the refresh calls made (in all, and before the first
\* request), the status codes received, and whether the header of the first
\* request carried a token past its expiry although a refresh token was stored.
IdleCall ==
    [op |-> "none", token |-> NoToken, attempt |-> 0, refreshes |-> 0, first |-> 0,
     after |-> "none", codes |-> <<>>, result |-> "none", stale |-> FALSE]

\* Whether the stored expiry lies in the past.
InPast(c, t) == c.token_expiry.set /\ c.token_expiry.at < t

\* The HTTP request goes out with the stored access token in its header.
SendWith(cl, c, t) ==
    [cl EXCEPT !.token = c.access_token, !.attempt = @ + 1, !.after = "none",
               !.first = IF cl.attempt = 0 THEN cl.refreshes ELSE @,
               !.stale = IF cl.attempt = 0
                         THEN InPast(c, t) /\ c.refresh_token # NoToken
                         ELSE @]

Finished(cl, res) == [cl EXCEPT !.result = res, !.after = "none"]

\* _request up to its first external call: _headers -> _ensure_access_token.
StartRequest(p) ==
    /\ pc[p] = "idle"
    /\ LET c0 == [IdleCall EXCEPT !.op = "_request"]
       IN  IF NeedsRefresh(cred, now)
           THEN IF CanRefresh(cred)
                THEN /\ pc' = [pc EXCEPT ![p] = "refreshing"]
                     /\ call' = [call EXCEPT ![p] =
                                    [c0 EXCEPT !.after = "ensure", !.refreshes = 1]]
                ELSE /\ pc' = [pc EXCEPT ![p] = "done"]
                     /\ call' = [call EXCEPT ![p] = Finished(c0, "no_refresh_token")]
           ELSE /\ pc' = [pc EXCEPT ![p] = "http"]
                /\ call' = [call EXCEPT ![p] =
                               SendWith(c0, cred, now)]
    /\ UNCHANGED <<cred, now, nextTok, fatal, ingressVars, mapVars, listenerVars, txnVars, outVars, extVars>>

\* send_chat / list_spaces / create_space up to the external call.
StartSendChat(p) ==
    /\ pc[p] = "idle"
    /\ LET c0 == [IdleCall EXCEPT !.op = "send_chat"]
           c1 == refresh_if_needed(cred, now)
       IN  IF cred.access_token = NoToken
           THEN /\ pc' = [pc EXCEPT ![p] = "done"]
                /\ call' = [call EXCEPT ![p] = Finished(c0, "no_access_token")]
                /\ cred' = cred
           ELSE /\ pc' = [pc EXCEPT ![p] = "http"]
                /\ call' = [call EXCEPT ![p] = SendWith(c0, c1, now)]
                /\ cred' = c1
    /\ UNCHANGED <<now, nextTok, fatal, ingressVars, mapVars, listenerVars, txnVars, outVars, extVars>>

\* What follows the forced refresh of the 401 branch: headers = self._headers().
AfterForced(cl, c, t) ==
    IF NeedsRefresh(c, t)
    THEN IF CanRefresh(c)
         THEN [pc |-> "refreshing",
               call |-> [cl EXCEPT !.after = "ensure", !.refreshes = @ + 1]]
         ELSE [pc |-> "done", call |-> Finished(cl, "no_refresh_token")]
    ELSE [pc |-> "http", call |-> SendWith(cl, c, t)]

\* The provider answers the refresh call with a token.
RefreshSucceeds(p) ==
    /\ pc[p] = "refreshing"
    /\ nextTok <= MaxTokens
    /\ \E life \in Lifetimes :
        LET c1 == StoreRefreshed(cred, nextTok, life, now)
            n == IF call[p].after = "forced" THEN AfterForced(call[p], c1, now)
                 ELSE [pc |-> "http",
                       call |-> SendWith(call[p], c1, now)]
        IN  /\ cred' = c1
            /\ pc' = [pc EXCEPT ![p] = n.pc]
            /\ call' = [call EXCEPT ![p] = n.call]
    /\ nextTok' = nextTok + 1
    /\ UNCHANGED <<now, fatal, ingressVars, mapVars, listenerVars, txnVars, outVars, extVars>>

\* The provider rejects the refresh token (invalid_grant), or cannot be reached.
RefreshFails(p) ==
    /\ pc[p] = "refreshing"
    /\ \E why \in {"invalid_grant", "refresh_network"} :
        /\ pc' = [pc EXCEPT ![p] = "done"]
        /\ call' = [call EXCEPT ![p] = Finished(@, why)]
        /\ fatal' = (fatal \/ why = "invalid_grant")
    /\ UNCHANGED <<cred, now, nextTok, ingressVars, mapVars, listenerVars, txnVars, outVars, extVars>>

\* Mutant: the 401 branch taken on every 401 response.
Retry401_Always(cl, code) == code = 401

\* The 401 branch of _request: taken on the first response only.
Retry401(cl, code) == code = 401 /\ cl.attempt = 1

\* The API answers the request of _request.
RequestReturns(p) ==
    /\ pc[p] = "http"
    /\ call[p].op = "_request"
    /\ \E code \in {200, 401, 500} :
        LET cl == [call[p] EXCEPT !.codes = Append(@, code)]
        IN  IF Retry401(cl, code)
            THEN IF CanRefresh(cred)
                 THEN /\ pc' = [pc EXCEPT ![p] = "refreshing"]
                      /\ call' = [call EXCEPT ![p] =
                                     [cl EXCEPT !.after = "forced", !.refreshes = @ + 1]]
                 ELSE /\ pc' = [pc EXCEPT ![p] = "done"]
                      /\ call' = [call EXCEPT ![p] = Finished(cl, "no_refresh_token")]
            ELSE /\ pc' = [pc EXCEPT ![p] = "done"]
                 /\ call' = [call EXCEPT ![p] =
                                Finished(cl, IF code = 200 THEN "ok" ELSE "api_error")]
    /\ UNCHANGED <<cred, now, nextTok, fatal, ingressVars, mapVars, listenerVars, txnVars, outVars, extVars>>

\* The API answers the request of send_chat: raise_for_status, no retry.
SendChatReturns(p) ==
    /\ pc[p] = "http"
    /\ call[p].op = "send_chat"
    /\ \E code \in {200, 401, 500} :
        /\ pc' = [pc EXCEPT ![p] = "done"]
        /\ call' = [call EXCEPT ![p] =
                       Finished([@ EXCEPT !.codes = Append(@, code)],
                                IF code = 200 THEN "ok" ELSE "api_error")]
    /\ UNCHANGED <<cred, now, nextTok, fatal, ingressVars, mapVars, listenerVars, txnVars, outVars, extVars>>

\* requests raised (timeout, connection error) instead of answering.
HttpFails(p) ==
    /\ pc[p] = "http"
    /\ pc' = [pc EXCEPT ![p] = "done"]
    /\ call' = [call EXCEPT ![p] = Finished(@, "network_error")]
    /\ UNCHANGED <<cred, now, nextTok, fatal, ingressVars, mapVars, listenerVars, txnVars, outVars, extVars>>

\* The exception a failed call raises to its caller: its class and the fixed
\* part of its message (the rest is str(e) of the underlying exception).
RaisedError(op, result) ==
    [class |-> "UserError",
     message |-> CASE result = "no_refresh_token" -> "No refresh token available"
                   [] result \in {"invalid_grant", "refresh_network"} ->
                          "Failed to refresh token"
                   [] result = "no_access_token" -> "Access token not found"
                   [] result = "network_error" /\ op = "_request" -> "Request failed"
                   [] result = "api_error" /\ op = "_request" -> "GChat API"
                   [] OTHER -> "Failed to send message to Google Chat"]

\* The call returned or raised; the worker takes its next request.
Return(p) ==
    /\ pc[p] = "done"
    /\ pc' = [pc EXCEPT ![p] = "idle"]
    /\ call' = [call EXCEPT ![p] = IdleCall]
    /\ UNCHANGED <<cred, now, nextTok, fatal, ingressVars, mapVars, listenerVars, txnVars, outVars, extVars>>

\* No authorization request under way, and the state parameters of the two
\* configurations.
NoFlow == "none"
ConfigStates == {"config_1", "config_2"}

\* gchat.config search([('is_active', '=', True)], limit=1)
FirstActiveConfig(c1, c2) ==
    IF c1.is_active THEN "config_1" ELSE IF c2.is_active THEN "config_2" ELSE NoFlow

\* GET /gchat/oauth/callback with a code the provider accepts: the tokens of
\* the answer are stored (refresh_token possibly missing from the answer).
\* The state parameter is not read: the record written is the first one of
\* search([('is_active', '=', True)], limit=1).
gchat_oauth_callback ==
    /\ FirstActiveConfig(cred, cred2) # NoFlow
    /\ nextTok <= MaxTokens
    /\ \E life \in Lifetimes, rt \in {NoToken, RefreshTok} :
        LET Written(c) == [c EXCEPT !.access_token = nextTok, !.refresh_token = rt,
                                    !.token_expiry = Expiry(now + life)]
        IN  /\ cred' = IF FirstActiveConfig(cred, cred2) = "config_1"
                       THEN Written(cred) ELSE cred
            /\ cred2' = IF FirstActiveConfig(cred, cred2) = "config_2"
                        THEN Written(cred2) ELSE cred2
    /\ nextTok' = nextTok + 1
    /\ fatal' = FALSE
    /\ oauthFlow' = NoFlow
    /\ UNCHANGED <<now, pc, call, ingressVars, mapVars, listenerVars, txnVars, outVars,
                   subVars, stopVars, taskName>>

\* gchat.config.action_get_oauth_token on configuration k: the user is sent to
\* the provider with state = 'config_<id>'.
action_get_oauth_token(k) ==
    /\ oauthFlow' = k
    /\ UNCHANGED <<cred2, credVars, ingressVars, mapVars, listenerVars, txnVars, outVars,
                   subVars, stopVars, taskName>>

\* Time passes.
Tick ==
    /\ now < MaxTime
    /\ now' = now + 1
    /\ UNCHANGED <<cred, nextTok, pc, call, fatal, ingressVars, mapVars, listenerVars, txnVars, outVars, extVars>>

(***************************************************************************)
(* Space / Thread mapper: gchat.space, gchat.thread and the project and    *)
(* task extensions.  An operation that raises out of its request is rolled *)
(* back by the ORM transaction: the tables stay as they were.              *)
(***************************************************************************)
Projects == {"proj1", "proj2"}
Tasks == {"task1", "task2"}
SpaceNames == {"spaces/A", "spaces/B"}
NoProject == "<noproject>"

\* The id create() gives the gchat.space record of a project.
SpaceRecId(q) == IF q = "proj1" THEN "sp1" ELSE "sp2"
SpaceRecIds == {SpaceRecId(q) : q \in Projects}

\* No gchat.subscription bound to a space.
NoSub == [exists |-> FALSE]

\* Mutant: a thread key that does not depend on the task.
str_id_Const(t) == "1"

\* str(task.id)
str_id(t) == IF t = "task1" THEN "1" ELSE "2"

\* The last mapper operation: flip tells two calls with equal outcome apart.
NoMapCall == [flip |-> FALSE, op |-> "none", project |-> NoProject, task |-> "none",
              sid |-> Absent, result |-> "none"]
MapCall(op, q, t, sid, res) ==
    [flip |-> ~lastMap.flip, op |-> op, project |-> q, task |-> t, sid |-> sid,
     result |-> res]

\* Mutant: gchat.space without its unique(project_id) constraint.
SpaceUniqueViolation_SpaceIdOnly(sps, q, sid) == \E sp \in sps : sp.space_id = sid

\* gchat.space: unique(project_id), unique(space_id), over active and archived rows.
SpaceUniqueViolation(sps, q, sid) ==
    \E sp \in sps : sp.project_id = q \/ sp.space_id = sid

\* Mutant: gchat.thread without its unique constraints.
ThreadUniqueViolation_Off(ths, t, key) == FALSE

\* gchat.thread: unique(task_id), unique(thread_key).
ThreadUniqueViolation(ths, t, key) ==
    \E th \in ths : th.task_id = t \/ th.thread_key = key

\* gchat.thread._check_project_consistency, run by create() on the new row.
_check_project_consistency(th, sps, tp) ==
    \A sp \in sps : sp.id = th.space_id => sp.project_id = tp[th.task_id]

\* project.project.action_link_gchat_space(space_id)
action_link_gchat_space(q, sid) ==
    LET existing == {sp \in spaces : sp.space_id = sid /\ sp.active}
    IN  /\ cred.is_active
        /\ IF existing # {} /\ (CHOOSE sp \in existing : TRUE).project_id # q
           THEN /\ lastMap' = MapCall("link", q, "none", sid, "error")
                /\ UNCHANGED <<spaces, syncEnabled>>
           ELSE IF existing # {}
           THEN /\ lastMap' = MapCall("link", q, "none", sid, "info")
                /\ UNCHANGED <<spaces, syncEnabled>>
           ELSE IF SpaceUniqueViolation(spaces, q, sid)
           THEN /\ lastMap' = MapCall("link", q, "none", sid, "error")
                /\ UNCHANGED <<spaces, syncEnabled>>
           ELSE /\ spaces' = spaces \cup {[id |-> SpaceRecId(q), space_id |-> sid,
                                            project_id |-> q, active |-> TRUE]}
                /\ syncEnabled' = [syncEnabled EXCEPT ![q] = TRUE]
                /\ lastMap' = MapCall("link", q, "none", sid, "ok")
        /\ UNCHANGED <<threads, taskProject, ingressVars, listenerVars, txnVars, credVars, outVars, extVars>>

\* project.project.action_create_gchat_space: the row is created under a
\* provisional space_id of the project's own, the chat service is asked for a
\* space, and the row takes the name the service returned.
action_create_gchat_space(q) ==
    /\ cred.is_active
    /\ \/ /\ \E sp \in spaces : sp.project_id = q
          /\ lastMap' = MapCall("create_space", q, "none", Absent, "error")
          /\ UNCHANGED <<spaces, syncEnabled>>
       \/ /\ ~\E sp \in spaces : sp.project_id = q
          /\ lastMap' = MapCall("create_space", q, "none", Absent, "error")
          /\ UNCHANGED <<spaces, syncEnabled>>
       \/ /\ ~\E sp \in spaces : sp.project_id = q
          /\ \E sid \in SpaceNames :
                IF SpaceUniqueViolation(spaces, q, sid)
                THEN /\ lastMap' = MapCall("create_space", q, "none", sid, "error")
                     /\ UNCHANGED <<spaces, syncEnabled>>
                ELSE /\ spaces' = spaces \cup {[id |-> SpaceRecId(q), space_id |-> sid,
                                                 project_id |-> q, active |-> TRUE]}
                     /\ syncEnabled' = [syncEnabled EXCEPT ![q] = TRUE]
                     /\ lastMap' = MapCall("create_space", q, "none", sid, "ok")
    /\ UNCHANGED <<threads, taskProject, ingressVars, listenerVars, txnVars, credVars, outVars, extVars>>

\* The archive / unarchive button of a gchat.space (its active field).
ToggleSpaceActive(q) ==
    /\ \E sp \in spaces :
          /\ sp.project_id = q
          /\ spaces' = (spaces \ {sp}) \cup {[sp EXCEPT !.active = ~sp.active]}
    /\ lastMap' = MapCall("toggle_active", q, "none", Absent, "ok")
    /\ UNCHANGED <<threads, taskProject, syncEnabled, ingressVars, listenerVars, txnVars, credVars, outVars, extVars>>

\* Mutant: the space search of create_thread_for_task without ('active', '=', True).
ActiveSpaceOf_Any(sps, q) == {sp \in sps : sp.project_id = q}

\* gchat.space search([('project_id', '=', q), ('active', '=', True)])
ActiveSpaceOf(sps, q) == {sp \in sps : sp.project_id = q /\ sp.active}

\* gchat.thread.create_thread_for_task(task): the outcome and the table after it.
create_thread_for_task(t, sps, ths, tp) ==
    LET space == ActiveSpaceOf(sps, tp[t])
        th == [id |-> Cardinality(ths) + 1, thread_key |-> str_id(t),
               space_id |-> (CHOOSE sp \in space : TRUE).id,
               task_id |-> t, active |-> TRUE]
    IN  IF space = {} THEN [result |-> "no_space", threads |-> ths]
        ELSE IF ThreadUniqueViolation(ths, t, str_id(t))
             THEN [result |-> "conflict", threads |-> ths]
        ELSE IF ~_check_project_consistency(th, sps, tp)
             THEN [result |-> "inconsistent", threads |-> ths]
        ELSE [result |-> "ok", threads |-> ths \cup {th}]

\* project.task.action_create_gchat_thread.  gchat_thread_id is a stored
\* computed field that is not recomputed when a thread is created: for a task
\* with an active thread it holds the thread or is still empty.
action_create_gchat_thread(t) ==
    /\ taskProject[t] # NoProject
    /\ \E cached \in (IF syncEnabled[taskProject[t]]
                            /\ \E th \in threads : th.task_id = t /\ th.active
                        THEN BOOLEAN ELSE {FALSE}) :
         \E r \in {create_thread_for_task(t, spaces, threads, taskProject)} :
            IF ~syncEnabled[taskProject[t]]
            THEN /\ lastMap' = MapCall("create_thread", taskProject[t], t, Absent,
                                       "sync_disabled")
                 /\ threads' = threads
            ELSE IF cached
            THEN /\ lastMap' = MapCall("create_thread", taskProject[t], t, Absent,
                                       "already_exists")
                 /\ threads' = threads
            ELSE /\ lastMap' = MapCall("create_thread", taskProject[t], t, Absent, r.result)
                 /\ threads' = r.threads
    /\ UNCHANGED <<spaces, taskProject, syncEnabled, ingressVars, listenerVars, txnVars, credVars, outVars, extVars>>

(***************************************************************************)
(* Outbound push: gchat.thread.push_task_update and its callers.  The      *)
(* answer of the chat API to a posted message is an input of the step.     *)
(***************************************************************************)
\* The ids create() gives gchat.thread rows, and an unset last_message_id.
ThreadIds == 1 .. Cardinality(Tasks)
NoMessageId == 0

\* The chat API accepts the message, or the request fails: the API rejects it
\* (raise_for_status) or cannot be reached (timeout, connection error).
ApiAnswers == {"ok", "failed"}

field_mapping ==
    ("name" :> "Name") @@ ("user_id" :> "Assignee") @@ ("stage_id" :> "Stage")
    @@ ("priority" :> "Priority") @@ ("date_deadline" :> "Deadline")
    @@ ("description" :> "Description") @@ ("tag_ids" :> "Tags")

priority_labels == ("0" :> "Low") @@ ("1" :> "Normal") @@ ("2" :> "High")

\* res.users / project.task.type browse(value).name
browse_name(value) ==
    IF value = "7" THEN "Ann" ELSE IF value = "3" THEN "Done" ELSE "False"

\* The text after the label of a line of _format_task_update_message.
FormatValue(field, value) ==
    IF field \in {"user_id", "stage_id"} THEN browse_name(value)
    ELSE IF field = "priority"
    THEN IF value \in DOMAIN priority_labels THEN priority_labels[value] ELSE value
    ELSE value

\* Mutant: a line for every field of the map, known or not.
_format_task_update_message_AllFields(th, vals_changed) ==
    [task |-> th.task_id,
     lines |-> {[label |-> IF f \in DOMAIN field_mapping THEN field_mapping[f] ELSE f,
                 value |-> FormatValue(f, vals_changed[f])] :
                   f \in DOMAIN vals_changed}]

\* The message text: the header naming the task and one line per known field.
_format_task_update_message(th, vals_changed) ==
    [task |-> th.task_id,
     lines |-> {[label |-> field_mapping[f], value |-> FormatValue(f, vals_changed[f])] :
                   f \in (DOMAIN vals_changed) \cap (DOMAIN field_mapping)}]

\* Mutant: send_chat adding the thread key in every authentication mode.
send_chat_AlwaysTag(c, space_id, text, thread_key, api, name, t) ==
    IF c.access_token = NoToken
    THEN [raised |-> TRUE, posted |-> <<>>, success |-> FALSE, message_id |-> NoMessageId]
    ELSE LET c1 == refresh_if_needed(c, t)
             message_data == [text |-> text, threadKey |-> thread_key]
         IN  [raised |-> api # "ok",
              posted |-> <<[space_id |-> space_id, message_data |-> message_data]>>,
              success |-> api = "ok",
              message_id |-> IF api = "ok" THEN name ELSE NoMessageId]

\* gchat.config.send_chat(space_id, text, thread_key): the request posted to
\* spaces/{space_id}/messages, and what the call returns.  name is the
\* message name in the API's answer.
send_chat(c, space_id, text, thread_key, api, name, t) ==
    IF c.access_token = NoToken
    THEN [raised |-> TRUE, posted |-> <<>>, success |-> FALSE, message_id |-> NoMessageId]
    ELSE LET c1 == refresh_if_needed(c, t)
             message_data ==
                 [text |-> text,
                  threadKey |-> IF thread_key # Absent /\ c1.auth_mode = "service_account"
                                THEN thread_key ELSE Absent]
         IN  [raised |-> api # "ok",
              posted |-> <<[space_id |-> space_id, message_data |-> message_data]>>,
              success |-> api = "ok",
              message_id |-> IF api = "ok" THEN name ELSE NoMessageId]

\* Mutant: push_task_update counting every posted request.
push_task_update_CountPosted(th, vals_changed, c, sps, api, name, t, count, last) ==
    LET space == CHOOSE sp \in sps : sp.id = th.space_id
        response == send_chat(c, space.space_id,
                              _format_task_update_message(th, vals_changed),
                              th.thread_key, api, name, t)
    IN  [raised |-> response.raised, posted |-> response.posted,
         message_count |-> count + Len(response.posted),
         last_message_id |-> IF response.success THEN response.message_id ELSE last]

\* Mutant: push_task_update returning where it should raise.
push_task_update_Swallow(th, vals_changed, c, sps, api, name, t, count, last) ==
    LET space == CHOOSE sp \in sps : sp.id = th.space_id
        response == send_chat(c, space.space_id,
                              _format_task_update_message(th, vals_changed),
                              th.thread_key, api, name, t)
    IN  [raised |-> FALSE, posted |-> response.posted,
         message_count |-> IF response.success THEN count + 1 ELSE count,
         last_message_id |-> IF response.success THEN response.message_id ELSE last]

\* gchat.thread.push_task_update(vals_changed): the requests posted, whether
\* the call raised, and the thread's counters after it.
push_task_update(th, vals_changed, c, sps, api, name, t, count, last) ==
    LET space == CHOOSE sp \in sps : sp.id = th.space_id
        response == send_chat(c, space.space_id,
                              _format_task_update_message(th, vals_changed),
                              th.thread_key, api, name, t)
    IN  [raised |-> response.raised, posted |-> response.posted,
         message_count |-> IF response.success THEN count + 1 ELSE count,
         last_message_id |-> IF response.success THEN response.message_id ELSE last]

important_fields == {"name", "user_id", "stage_id", "priority", "date_deadline", "description"}

\* The last operation that may push.  Of a task write: the task, the fields
\* written and the priority among them, the active thread of the task, the
\* number of requests posted before the write, and whether an access token
\* was stored.  Of every operation: whether it called push_task_update,
\* whether the send failed (no token, or the request failed), whether the push
\* raised, what the operation returned to its caller, and the map it handed
\* to push_task_update.
NoPush ==
    [op |-> "none", task |-> "none", fields |-> {}, priority |-> Absent,
     thread |-> 0, before |-> 0, token |-> FALSE,
     pushed |-> FALSE, failed |-> FALSE, raised |-> FALSE, returned |-> "none",
     vals |-> <<>>]
SendFails(api) == cred.access_token = NoToken \/ api # "ok"
WriteCall(t, vals, pushed, failed, raised) ==
    [op |-> "write", task |-> t, fields |-> DOMAIN vals,
     vals |-> IF pushed THEN [f \in (DOMAIN vals) \cap important_fields |-> vals[f]]
              ELSE <<>>,
     priority |-> IF "priority" \in DOMAIN vals THEN vals["priority"] ELSE Absent,
     thread |-> IF \E th \in threads : th.task_id = t /\ th.active
                THEN (CHOOSE th \in threads : th.task_id = t /\ th.active).id ELSE 0,
     before |-> Len(sent), token |-> cred.access_token # NoToken,
     pushed |-> pushed, failed |-> failed, raised |-> raised, returned |-> "ok"]
PushCall(op, t, vals, pushed, failed, raised, returned) ==
    [NoPush EXCEPT !.op = op, !.task = t, !.pushed = pushed, !.failed = failed,
                   !.raised = raised, !.returned = returned,
                   !.vals = IF pushed THEN vals ELSE <<>>,
                   !.before = Len(sent), !.token = cred.access_token # NoToken]

\* The outcome of a push on thread th with the answer api.
Pushed(th, vals, api) ==
    push_task_update(th, vals, cred, spaces, api, Len(sent) + 1, now,
                     message_count[th.id], last_message_id[th.id])

\* The effect of a push on the thread's row and on the requests posted.
ApplyPush(th, r) ==
    /\ Len(sent) < MaxSends
    /\ sent' = sent \o [i \in 1 .. Len(r.posted) |->
                           [thread |-> th.id, mode |-> cred.auth_mode,
                            ok |-> ~r.raised, request |-> r.posted[i]]]
    /\ message_count' = [message_count EXCEPT ![th.id] = r.message_count]
    /\ last_message_id' = [last_message_id EXCEPT ![th.id] = r.last_message_id]

\* project.task.create with project_id q: the thread is created when the
\* project syncs and the task's name is pushed to it; a failure of either is
\* logged and the task stays.
task_create(t, q) ==
    /\ taskProject[t] = NoProject
    /\ taskProject' = [taskProject EXCEPT ![t] = q]
    /\ taskName' = [taskName EXCEPT ![t] = "Task"]
    /\ LET c == create_thread_for_task(t, spaces, threads, taskProject')
           made == c.threads \ threads
       IN  /\ threads' = IF syncEnabled[q] THEN c.threads ELSE threads
           /\ IF syncEnabled[q] /\ made # {}
              THEN \E api \in ApiAnswers :
                      LET r == Pushed(CHOOSE th \in made : TRUE, "name" :> "Task", api)
                      IN  /\ ApplyPush(CHOOSE th \in made : TRUE, r)
                          /\ lastPush' = PushCall("create", t, "name" :> "Task", TRUE, SendFails(api),
                                                  r.raised, "ok")
              ELSE /\ lastPush' = PushCall("create", t, <<>>, FALSE, FALSE, FALSE, "ok")
                   /\ UNCHANGED <<sent, message_count, last_message_id>>
    /\ lastMap' = MapCall("task_create", q, t, Absent, "ok")
    /\ UNCHANGED <<spaces, syncEnabled, ingressVars, listenerVars, txnVars, credVars,
                   authVars, subVars, stopVars>>

\* project.task.write({'project_id': q}): the task moves; no gchat.thread
\* field is written, so no constraint of gchat.thread runs.
task_write(t, q) ==
    /\ taskProject[t] # NoProject
    /\ taskProject' = [taskProject EXCEPT ![t] = q]
    /\ lastMap' = MapCall("task_write", q, t, Absent, "ok")
    /\ UNCHANGED <<spaces, threads, syncEnabled, ingressVars, listenerVars, txnVars, credVars, outVars, extVars>>

\* The values of the task writes of this model: known fields of the message,
\* alone and together, and a field the message does not know.
WriteVals ==
    {"priority" :> "2", "tag_ids" :> "urgent",
     ("name" :> "New") @@ ("tag_ids" :> "urgent"), "color" :> "4"}

\* The thread gchat_thread_id may hold for task t: a stored computed field
\* that follows project_id.gchat_sync_enabled only, so for a task with an
\* active thread it holds the thread or is still empty.
gchat_thread_id(t) ==
    {{}} \cup (IF taskProject[t] # NoProject /\ syncEnabled[taskProject[t]]
               THEN {{th} : th \in {x \in threads : x.task_id = t /\ x.active}}
               ELSE {})

\* project.task.write(vals) of the task's own fields: the changed important
\* fields are pushed to gchat_thread_id; a failure of the push is logged.
task_write_vals(t) ==
    \E vals \in WriteVals, cached \in gchat_thread_id(t) :
        LET changes_to_notify ==
                [f \in (DOMAIN vals) \cap important_fields |-> vals[f]]
        IN  /\ taskProject[t] # NoProject
            /\ taskName' = IF "name" \in DOMAIN vals
                           THEN [taskName EXCEPT ![t] = vals["name"]] ELSE taskName
            /\ IF DOMAIN changes_to_notify # {} /\ cached # {}
               THEN \E th \in cached, api \in ApiAnswers :
                       LET r == Pushed(th, changes_to_notify, api)
                       IN  /\ ApplyPush(th, r)
                           /\ lastPush' = WriteCall(t, vals, TRUE, SendFails(api), r.raised)
               ELSE /\ lastPush' = WriteCall(t, vals, FALSE, FALSE, FALSE)
                    /\ UNCHANGED <<sent, message_count, last_message_id>>
            /\ UNCHANGED <<ingressVars, mapVars, listenerVars, txnVars, credVars,
                           authVars, subVars, stopVars>>

\* project.task.action_sync_gchat_thread: the current values of the task are
\* pushed; a failure is raised to the user.
action_sync_gchat_thread(t) ==
    \E cached \in gchat_thread_id(t) :
        LET current_state ==
                ("name" :> taskName[t]) @@ ("user_id" :> "7") @@ ("stage_id" :> "3")
                @@ ("priority" :> "1") @@ ("date_deadline" :> "2026-01-01")
                @@ ("description" :> "text")
        IN  /\ taskProject[t] # NoProject
            /\ IF cached # {}
               THEN \E th \in cached, api \in ApiAnswers :
                       LET r == Pushed(th, current_state, api)
                       IN  /\ ApplyPush(th, r)
                           /\ lastPush' = PushCall("sync", t, current_state, TRUE, SendFails(api), r.raised,
                                                   IF r.raised THEN "error" ELSE "ok")
               ELSE /\ lastPush' = PushCall("sync", t, <<>>, FALSE, FALSE, FALSE, "error")
                    /\ UNCHANGED <<sent, message_count, last_message_id>>
            /\ UNCHANGED <<ingressVars, mapVars, listenerVars, txnVars, credVars, extVars>>

\* gchat.message.wizard.action_send_message on a thread: the text goes out
\* under a key the message format does not know.
action_send_message ==
    \E th \in threads, api \in ApiAnswers :
        LET r == Pushed(th, "message" :> "hello", api)
        IN  /\ ApplyPush(th, r)
            /\ lastPush' = PushCall("wizard", th.task_id, "message" :> "hello", TRUE, SendFails(api), r.raised,
                                    IF r.raised THEN "error" ELSE "ok")
            /\ UNCHANGED <<ingressVars, mapVars, listenerVars, txnVars, credVars, extVars>>

\* gchat.space unlink(): the rows that reference the space through a Many2one
\* with ondelete='cascade' go with it (gchat.thread, gchat.member,
\* gchat.event.log, gchat.subscription).
unlink_space(q) ==
    \E sp \in spaces :
        /\ sp.project_id = q
        /\ spaces' = spaces \ {sp}
        /\ threads' = {th \in threads : th.space_id # sp.id}
        /\ members' = {m \in members : m.space_id # sp.id}
        /\ events' = [mid \in Ids |->
                        IF events[mid].exists /\ events[mid].space_id = sp.id
                        THEN NoEvent ELSE events[mid]]
        /\ subs' = [subs EXCEPT ![sp.id] = NoSub]
        /\ lastMap' = MapCall("unlink_space", q, "none", Absent, "ok")
        /\ UNCHANGED <<comments, applied, delivered, trans, lastCall, taskProject,
                       syncEnabled, listenerVars, txnVars, credVars, outVars, authVars,
                       day, warned,
                   stopVars, taskName>>

\* gchat.thread unlink(): no other row of the addon references a thread by id.
unlink_thread(t) ==
    \E th \in threads :
        /\ th.task_id = t
        /\ threads' = threads \ {th}
        /\ lastMap' = MapCall("unlink_thread", taskProject[t], t, Absent, "ok")
        /\ UNCHANGED <<spaces, taskProject, syncEnabled, ingressVars, listenerVars,
                       txnVars, credVars, outVars, extVars>>

(***************************************************************************)
(* gchat.subscription: the Pub/Sub subscription of a space.  Time is in    *)
(* days.                                                                   *)
(***************************************************************************)
\* timedelta(days=7) of create_on_gcp / renew_on_gcp, and timedelta(days=1) of
\* the expiry cron.
SubscriptionDays == 7
ExpiringDays == 1

\* The space record of project q, as a set.
SpaceOf(q) == {sp \in spaces : sp.project_id = q}

\* gchat.space.ensure_subscription: the subscription is created active, with no
\* expires_at, when the space has none.
ensure_subscription(q) ==
    \E sp \in SpaceOf(q) :
        /\ subs' = IF subs[sp.id].exists THEN subs
                   ELSE [subs EXCEPT ![sp.id] =
                            [exists |-> TRUE, status |-> "active", expires_at |-> NoExpiry]]
        /\ UNCHANGED <<day, warned, authVars, ingressVars, mapVars, listenerVars, txnVars,
                       credVars, outVars,
                   stopVars, taskName>>

\* gchat.subscription.create_on_gcp / renew_on_gcp: the same write.
renew_on_gcp(sub, d) ==
    [sub EXCEPT !.status = "active", !.expires_at = Expiry(d + SubscriptionDays)]

\* gchat.subscription.action_create / action_renew, clicked by the operator.
action_renew(q) ==
    \E sp \in SpaceOf(q) :
        /\ subs[sp.id].exists
        /\ subs' = [subs EXCEPT ![sp.id] = renew_on_gcp(@, day)]
        /\ UNCHANGED <<day, warned, authVars, ingressVars, mapVars, listenerVars, txnVars,
                       credVars, outVars,
                   stopVars, taskName>>

\* gchat.space.cancel_subscription / gchat.subscription.action_delete.
cancel_subscription(q) ==
    \E sp \in SpaceOf(q) :
        /\ subs[sp.id].exists
        /\ subs' = [subs EXCEPT ![sp.id] = NoSub]
        /\ UNCHANGED <<day, warned, authVars, ingressVars, mapVars, listenerVars, txnVars,
                       credVars, outVars,
                   stopVars, taskName>>

\* The search of _cron_check_expiring_subscriptions.
is_expiring(sub, d) ==
    /\ sub.exists
    /\ sub.status = "active"
    /\ sub.expires_at.set
    /\ sub.expires_at.at <= d + ExpiringDays

\* gchat.subscription._cron_check_expiring_subscriptions: each expiring
\* subscription is logged; no record is written.
_cron_check_expiring_subscriptions ==
    /\ warned' = warned \cup {i \in SpaceRecIds : is_expiring(subs[i], day)}
    /\ UNCHANGED <<subs, day, authVars, ingressVars, mapVars, listenerVars, txnVars,
                   credVars, outVars,
                   stopVars, taskName>>

\* A day passes.
DayPasses ==
    /\ day < MaxDay
    /\ day' = day + 1
    /\ UNCHANGED <<subs, warned, authVars, ingressVars, mapVars, listenerVars, txnVars,
                   credVars, outVars,
                   stopVars, taskName>>

(***************************************************************************)
(* Concurrent pipeline calls.  Each call (a webhook request, a click on    *)
(* the retry button) runs in a database transaction of its own: it reads   *)
(* the tables as they were committed when it began, and its writes become  *)
(* visible when it commits.  An INSERT that meets a committed row with the *)
(* same unique key, and an UPDATE of a row that another transaction has    *)
(* changed since, fail, and the transaction is rolled back.                *)
(***************************************************************************)
\* The events concurrent calls carry: a message, a failing event, a member.
TxnPayloads == {PMsg, PNullSpace, PAdd}
TxnEnvelopes ==
    {Envelope(m, b64encode(utf8_encode(CompactJson(pl)))) : m \in Ids, pl \in TxnPayloads}

NoTx ==
    [pc |-> "idle", op |-> "none", id |-> Absent, base |-> 0, row |-> NoEvent,
     wrote |-> FALSE, insert |-> FALSE, dispatched |-> FALSE, removed |-> {},
     added |-> {}, posted |-> <<>>, effect |-> 0, writes |-> <<>>,
     resp |-> Response("none", 0), last |-> "none"]

\* What a call that ran on the committed state will write when it commits.
Plan(op, mid, insert, wrote, row, writes, mem, com, n, resp) ==
    [pc |-> "open", op |-> op, id |-> mid, base |-> ver[mid], row |-> row,
     wrote |-> wrote, insert |-> insert,
     dispatched |-> \E i \in 1 .. Len(writes) : writes[i] = "processing",
     removed |-> members \ mem, added |-> mem \ members,
     posted |-> SubSeq(com, Len(comments) + 1, Len(com)),
     effect |-> n, writes |-> writes, resp |-> resp, last |-> "none"]

\* A webhook request with the configured token begins.
TxBeginWebhook(p) ==
    \E e \in TxnEnvelopes :
        LET mid == e.message_id
            r == gchat_webhook([auth |-> <<"Bearer", cred.webhook_token>>, body |-> e],
                               events, members, comments, spaces, threads, cred)
        IN  /\ txn[p].pc = "idle"
            /\ delivered[mid] < MaxDeliveries
            /\ ver[mid] < MaxCommits
            /\ r.accepted
            /\ delivered' = [delivered EXCEPT ![mid] = @ + 1]
            /\ txn' = [txn EXCEPT ![p] =
                         Plan("webhook", mid, TRUE, r.resp.code # 500, r.events[mid],
                              r.writes, r.members, r.comments, r.effect, r.resp)]
            /\ UNCHANGED <<events, members, comments, applied, trans, lastCall, ver,
                           served, mapVars, listenerVars, credVars, outVars, extVars>>

\* A click on the retry button begins.
TxBeginRetry(p) ==
    \E mid \in Ids :
        LET r == action_retry_processing(events[mid], members, comments, spaces, threads)
        IN  /\ txn[p].pc = "idle"
            /\ events[mid].exists
            /\ ver[mid] < MaxCommits
            /\ txn' = [txn EXCEPT ![p] =
                         Plan("retry", mid, FALSE, r.writes # <<>>, r.ev, r.writes,
                              r.members, r.comments, r.effect, Outcome(r.ok))]
            /\ UNCHANGED <<ingressVars, ver, served, mapVars, listenerVars, credVars, outVars, extVars>>

\* The UPDATE of a row that was committed anew after the transaction began.
RowChanged(t) == ver[t.id] # t.base

\* The unique(space_id, email) constraint and the row versions of gchat.member.
MemberConflict(t) ==
    \/ ~(t.removed \subseteq members)
    \/ \E a \in t.added :
          \E m \in members \ t.removed : m.space_id = a.space_id /\ m.email = a.email

Conflict(t) ==
    \/ t.wrote /\ t.insert /\ UniqueViolation(events, t.id)
    \/ t.wrote /\ ~t.insert /\ RowChanged(t)
    \/ MemberConflict(t)

\* The transaction commits: what it wrote becomes the committed state.
TxCommit(p) ==
    LET t == txn[p]
        mid == t.id
    IN  /\ t.pc = "open"
        /\ ~Conflict(t)
        /\ events' = IF t.wrote THEN [events EXCEPT ![mid] = t.row] ELSE events
        /\ members' = (members \ t.removed) \cup t.added
        /\ comments' = comments \o t.posted
        /\ applied' = [applied EXCEPT ![mid] = @ + t.effect]
        /\ trans' = trans \cup Steps(t.writes, t.op)
        /\ ver' = IF t.wrote THEN [ver EXCEPT ![mid] = @ + 1] ELSE ver
        /\ served' = IF t.dispatched THEN [served EXCEPT ![mid] = Append(@, t.base)]
                      ELSE served
        /\ lastCall' = [op |-> t.op, id |-> mid, pre |-> StatusOf(events, mid),
                        accepted |-> TRUE, resp |-> t.resp,
                        auth |-> IF t.op = "webhook" THEN <<"Bearer", cred.webhook_token>>
                                 ELSE <<>>,
                        shape |-> IF t.op = "webhook" THEN "event" ELSE "none"]
        /\ txn' = [txn EXCEPT ![p] = [NoTx EXCEPT !.op = t.op, !.id = mid,
                                                !.last = "committed"]]
        /\ UNCHANGED <<delivered, mapVars, listenerVars, credVars, outVars, extVars>>

\* The transaction fails on a conflict and is rolled back: nothing it did stays.
TxAbort(p) ==
    LET t == txn[p]
    IN  /\ t.pc = "open"
        /\ Conflict(t)
        /\ txn' = [txn EXCEPT ![p] = [NoTx EXCEPT !.op = t.op, !.id = t.id,
                                                !.last = "conflict"]]
        /\ UNCHANGED <<ingressVars, ver, served, mapVars, listenerVars, credVars, outVars, extVars>>

(***************************************************************************)
(* Specifications                                                          *)
(***************************************************************************)
\* The configuration record as created: active, oauth mode, not yet authorized.
NewConfig ==
    [is_active |-> TRUE, webhook_token |-> GoodToken, auth_mode |-> "oauth",
     access_token |-> NoToken, refresh_token |-> NoToken, token_expiry |-> NoExpiry]

InitFrom(tok, c) ==
    /\ events = [m \in Ids |-> NoEvent]
    /\ members = {}
    /\ comments = <<>>
    /\ spaces = {[id |-> "sp1", space_id |-> "spaces/A", project_id |-> "proj1",
                  active |-> TRUE]}
    /\ threads = {[id |-> 1, thread_key |-> "1", space_id |-> "sp1", task_id |-> "task1",
                   active |-> TRUE]}
    /\ taskProject = [t \in Tasks |-> IF t = "task1" THEN "proj1" ELSE NoProject]
    /\ syncEnabled = [q \in Projects |-> q = "proj1"]
    /\ lastMap = NoMapCall
    /\ applied = [m \in Ids |-> 0]
    /\ delivered = [m \in Ids |-> 0]
    /\ trans = {}
    /\ lastCall = [op |-> "none", id |-> Absent, pre |-> "none", accepted |-> FALSE,
                   resp |-> Response("none", 0), auth |-> <<>>, shape |-> "none"]
    /\ queue = [m \in Ids |-> NoMessage]
    /\ listenerToken = tok
    /\ cred = c
    /\ now = 0
    /\ nextTok = 1
    /\ pc = [p \in Procs |-> "idle"]
    /\ call = [p \in Procs |-> IdleCall]
    /\ fatal = FALSE
    /\ txn = [p \in Procs |-> NoTx]
    /\ ver = [m \in Ids |-> 0]
    /\ served = [m \in Ids |-> <<>>]
    /\ sent = <<>>
    /\ message_count = [i \in ThreadIds |-> 0]
    /\ last_message_id = [i \in ThreadIds |-> NoMessageId]
    /\ lastPush = NoPush
    /\ cred2 = [NewConfig EXCEPT !.webhook_token = "tokB"]
    /\ oauthFlow = NoFlow
    /\ subs = [i \in SpaceRecIds |-> NoSub]
    /\ day = 0
    /\ warned = {}
    /\ listener = "listening"
    /\ inflight = {}
    /\ handed = [m \in Ids |-> 0]
    /\ taskName = [t \in Tasks |-> IF t = "task1" THEN "Task" ELSE NoText]

InitWith(tok) == InitFrom(tok, NewConfig)

Init == InitWith(GoodToken)

\* Push-mode ingress: deliveries to the webhook, and the operator's retry.
Next ==
    \/ WebhookPush
    \/ RetryProcessing

Spec == Init /\ [][Next]_vars

\* Pull-mode ingress: the listener forwards the subscription's messages.
NextListener ==
    \/ Publish
    \/ ListenerFormatFails
    \/ ListenerSendFails
    \/ ListenerTimesOut
    \/ ListenerForwards
    \/ RetryProcessing

\* The listener may have been started with a --token the webhook does not know.
InitListener == \E tok \in {GoodToken, "tokX"} : InitWith(tok)

SpecListener == InitListener /\ [][NextListener]_vars

\* The credential manager and the gateway, one call at a time.
NextCred ==
    \/ StartRequest("w1")
    \/ StartSendChat("w1")
    \/ RefreshSucceeds("w1")
    \/ RefreshFails("w1")
    \/ RequestReturns("w1")
    \/ SendChatReturns("w1")
    \/ HttpFails("w1")
    \/ Return("w1")
    \/ gchat_oauth_callback
    \/ Tick

SpecCred == Init /\ [][NextCred]_vars

\* The gateway under two concurrent workers (two Odoo requests).
NextConc ==
    \/ \E p \in Procs : StartRequest(p)
    \/ \E p \in Procs : RefreshSucceeds(p)
    \/ \E p \in Procs : RefreshFails(p)
    \/ \E p \in Procs : RequestReturns(p)
    \/ \E p \in Procs : HttpFails(p)
    \/ \E p \in Procs : Return(p)
    \/ gchat_oauth_callback

SpecConc == Init /\ [][NextConc]_vars

\* The mapper: space links and creations, thread creations, task writes.
NextMap ==
    \/ \E q \in Projects, sid \in SpaceNames : action_link_gchat_space(q, sid)
    \/ \E q \in Projects : action_create_gchat_space(q)
    \/ \E q \in Projects : ToggleSpaceActive(q)
    \/ \E t \in Tasks : action_create_gchat_thread(t)
    \/ \E t \in Tasks, q \in Projects : task_create(t, q)
    \/ \E t \in Tasks, q \in Projects : task_write(t, q)

SpecMap == Init /\ [][NextMap]_vars

\* Two workers run pipeline calls concurrently.
NextTxn ==
    \E p \in Procs :
        \/ TxBeginWebhook(p)
        \/ TxBeginRetry(p)
        \/ TxCommit(p)
        \/ TxAbort(p)

SpecTxn == Init /\ [][NextTxn]_vars

\* Ingress and retry while an operator archives and unarchives the space.
NextRetry ==
    \/ WebhookPush
    \/ RetryProcessing
    \/ \E q \in Projects : ToggleSpaceActive(q)

SpecRetry == Init /\ [][NextRetry]_vars

\* An authenticated delivery of a well-formed event.
WebhookEvent ==
    \E e \in TxnEnvelopes :
        /\ Deliver([auth |-> <<"Bearer", cred.webhook_token>>, body |-> e])
        /\ UNCHANGED <<mapVars, listenerVars, txnVars, credVars, outVars, extVars>>

\* The listener with its callbacks on worker threads, and its shutdown.
NextStop ==
    \/ Publish
    \/ \E mid \in Ids : CallbackStarts(mid)
    \/ \E mid \in Ids : CallbackCompletes(mid)
    \/ KeyboardInterrupt
    \/ stop

SpecStop == Init /\ [][NextStop]_vars

\* Subscriptions: their creation, renewal and deletion, the expiry cron, and
\* the archiving of the space.
NextSub ==
    \/ \E q \in Projects : ensure_subscription(q)
    \/ \E q \in Projects : action_renew(q)
    \/ \E q \in Projects : cancel_subscription(q)
    \/ _cron_check_expiring_subscriptions
    \/ DayPasses
    \/ \E q \in Projects : ToggleSpaceActive(q)

SpecSub == Init /\ [][NextSub]_vars

\* The OAuth flows of two configurations.
NextAuth ==
    \/ \E k \in ConfigStates : action_get_oauth_token(k)
    \/ gchat_oauth_callback
    \/ Tick

SpecAuth == Init /\ [][NextAuth]_vars

\* The event log while spaces and threads are deleted.
NextDelete ==
    \/ WebhookEvent
    \/ \E q \in Projects : unlink_space(q)
    \/ \E t \in Tasks : unlink_thread(t)

SpecDelete == Init /\ [][NextDelete]_vars

\* Outbound push: task operations, the message wizard, and the configuration.
NextPush ==
    \/ \E t \in Tasks : task_write_vals(t)
    \/ \E t \in Tasks : action_sync_gchat_thread(t)
    \/ action_send_message
    \/ \E t \in Tasks : task_create(t, "proj1")

\* The configuration is new, or was authorized through the OAuth callback, in
\* either authentication mode.
InitPush ==
    \E c \in {NewConfig} \cup
              {[NewConfig EXCEPT !.auth_mode = m, !.access_token = 1,
                                 !.refresh_token = RefreshTok,
                                 !.token_expiry = Expiry(8)] :
                  m \in {"oauth", "service_account"}} :
        InitFrom(GoodToken, c)

SpecPush == InitPush /\ [][NextPush]_vars

(***************************************************************************)
(* Claims                                                                  *)
(***************************************************************************)
SideEffectTypes == {"MESSAGE_CREATED", "MESSAGE_UPDATED", "MEMBER_ADDED", "MEMBER_REMOVED"}

\* Whether the router, run on the stored payload of an event against the
\* tables as they are, finds a target and applies the event's side effect.
Applicable(ev) ==
    LET p == json_loads(ev.payload_json).value
    IN  process_incoming(NewEvent(p, Get(p.eventType, "UNKNOWN")), p,
                         members, comments, spaces, threads).effect = 1

\* C1: when an event id has been delivered at least twice and the delivery
\* just handled found the side effect of the event applicable (its space,
\* thread or member resolved), that side effect has been applied exactly
\* once over all deliveries of the id.
C1_ExactlyOnce ==
    \A mid \in Ids :
        (/\ delivered[mid] >= 2
         /\ lastCall.op = "webhook" /\ lastCall.id = mid /\ lastCall.accepted
         /\ events[mid].exists
         /\ events[mid].event_type \in SideEffectTypes
         /\ Applicable(events[mid])) => applied[mid] = 1

\* C2: a delivery whose message_id is that of an event already done (or being
\* processed) is answered "OK".
C2_DuplicateAnsweredOk ==
    (/\ lastCall.op = "webhook"
     /\ lastCall.accepted
     /\ lastCall.pre \in {"done", "processing"}) => lastCall.resp = Response("OK", 200)

\* C3: a message is acknowledged only if the pipeline answered success for it.
C3_AckOnlyOnSuccess ==
    \A mid \in Ids : queue[mid].acks > 0 => queue[mid].seen = "OK"

\* C4: every status change is new->processing, processing->done|error|skipped,
\* or error->new, the last one only inside the retry action.
AllowedTransitions ==
    {<<"new", "processing", op>> : op \in {"webhook", "retry"}}
        \cup {<<"processing", to, op>> : to \in {"done", "error", "skipped"},
                                         op \in {"webhook", "retry"}}
        \cup {<<"error", "new", "retry">>}

C4_StatusTransitions == trans \subseteq AllowedTransitions

C4_Witness ==
    /\ <<"error", "new", "retry">> \in trans
    /\ <<"processing", "done", "retry">> \in trans
    /\ \E mid \in Ids : events[mid].exists /\ events[mid].status = "done"
                           /\ lastCall.op = "retry" /\ lastCall.id = mid
                           /\ lastCall.pre = "done" /\ lastCall.resp = Outcome(FALSE)

\* C5: refresh calls for the credential never overlap.
C5_RefreshesNeverOverlap ==
    Cardinality({p \in Procs : pc[p] = "refreshing"}) <= 1

\* C6: a call answered 401 and then 200 returns the 200 result after exactly
\* one refresh caused by the 401; a call answered 401 twice fails.
C6_OneRefreshOn401 ==
    \A p \in Procs :
        (call[p].op = "_request" /\ call[p].result # "none") =>
            /\ call[p].codes = <<401, 200>> =>
                  (call[p].result = "ok" /\ call[p].refreshes - call[p].first = 1)
            /\ call[p].codes = <<401, 401>> => call[p].result = "api_error"

\* The claim's condition for a refresh, on the stored credential.
Stale(c, t) == c.access_token = NoToken \/ t >= c.token_expiry.at - 5

\* C7: _ensure_access_token goes to the provider if and only if the access
\* token is absent or within 5 minutes of its expiry (and then once);
\* otherwise it returns the cached token and leaves provider and credential
\* alone; after a successful refresh it returns the token just stored.
C7_RefreshIffStale ==
    [][\A p \in Procs :
        /\ (pc[p] = "idle" /\ call'[p].op = "_request") =>
              /\ Stale(cred, now) => pc'[p] \in {"refreshing", "done"}
              /\ (Stale(cred, now) /\ cred.refresh_token # NoToken) =>
                    (pc'[p] = "refreshing" /\ call'[p].refreshes = 1)
              /\ ~Stale(cred, now) =>
                    /\ pc'[p] = "http"
                    /\ call'[p].refreshes = 0
                    /\ call'[p].token = cred.access_token
                    /\ cred' = cred /\ nextTok' = nextTok
        /\ (pc[p] = "refreshing" /\ call[p].after = "ensure" /\ pc'[p] = "http") =>
              /\ cred'.access_token = nextTok
              /\ call'[p].token = cred'.access_token
              /\ call'[p].refreshes = call[p].refreshes
      ]_vars

C7_Witness ==
    /\ pc["w1"] = "http"
    /\ call["w1"].op = "_request"
    /\ call["w1"].attempt = 1
    /\ call["w1"].refreshes = 1
    /\ call["w1"].token = cred.access_token

\* C8: the first request of an API call never carries a token whose expiry is
\* in the past while a refresh token is stored.
C8_NoExpiredTokenAttached ==
    \A p \in Procs : (pc[p] = "http" /\ call[p].attempt = 1) => ~call[p].stale

\* C9: once a refresh failed with invalid_grant, no worker sends another
\* refresh call until the OAuth callback has stored new tokens.
C9_NoRefreshAfterInvalidGrant ==
    [][fatal => \A p \in Procs : call'[p].refreshes <= call[p].refreshes]_vars

\* The failures of the first _ensure_access_token of a call.
EnsureFailed(cl) ==
    cl.attempt = 0 /\ cl.result \in {"no_refresh_token", "invalid_grant", "refresh_network"}

\* C10, as stated: the first _ensure_access_token of a call fails exactly when
\* neither a refresh token nor a valid access token is stored; a call that
\* found a refresh token and went to the provider does not fail there.
C10_FailsExactlyWithoutTokens ==
    [][\A p \in Procs :
        /\ (pc[p] = "idle" /\ call'[p].op = "_request") =>
              (EnsureFailed(call'[p])
                  <=> (cred.refresh_token = NoToken /\ Stale(cred, now)))
        /\ (pc[p] = "refreshing" /\ call[p].attempt = 0) => ~EnsureFailed(call'[p])
      ]_vars

\* C10, amended: _ensure_access_token fails before any provider call, leaving
\* the credential as it is, exactly when neither a refresh token nor a valid
\* access token is stored; with a valid access token and no refresh token it
\* returns that token; its only other failure is a refresh call that the
\* provider rejected or that did not get through, which changes nothing either.
C10_FailsUnsentWithoutTokens ==
    [][\A p \in Procs :
        /\ (pc[p] = "idle" /\ call'[p].op = "_request") =>
              /\ call'[p].result = "no_refresh_token"
                    <=> (cred.refresh_token = NoToken /\ Stale(cred, now))
              /\ call'[p].result = "no_refresh_token" =>
                    /\ pc'[p] = "done"
                    /\ call'[p].refreshes = 0
                    /\ cred' = cred /\ nextTok' = nextTok
              /\ (cred.refresh_token = NoToken /\ ~Stale(cred, now)) =>
                    /\ pc'[p] = "http"
                    /\ call'[p].result = "none"
                    /\ call'[p].token = cred.access_token
        /\ (pc[p] = "refreshing" /\ call[p].after = "ensure" /\ pc'[p] = "done") =>
              /\ call'[p].result \in {"invalid_grant", "refresh_network"}
              /\ cred' = cred /\ nextTok' = nextTok
      ]_vars

C10_Witness ==
    /\ pc["w1"] = "done"
    /\ call["w1"].op = "_request"
    /\ call["w1"].result = "no_refresh_token"
    /\ call["w1"].attempt = 0
    /\ call["w1"].refreshes = 0
    /\ cred.access_token # NoToken

\* The results of a call whose token refresh did not deliver a token.
RefreshFailures == {"no_refresh_token", "invalid_grant", "refresh_network"}

\* What C11 says of a _request call whatever its first response was: at most
\* two HTTP requests; one when the first response is not 401; a non-2xx
\* response other than a first 401, and a second 401, end the call in ApiError.
C11_Common(cl) ==
    /\ cl.attempt <= 2
    /\ Len(cl.codes) <= cl.attempt
    /\ (cl.result # "none" /\ Len(cl.codes) >= 1 /\ cl.codes[1] # 401) =>
          /\ cl.attempt = 1
          /\ cl.result = (IF cl.codes[1] = 200 THEN "ok" ELSE "api_error")
    /\ (cl.result # "none" /\ Len(cl.codes) = 2) =>
          cl.result = (IF cl.codes[2] = 200 THEN "ok" ELSE "api_error")

ActiveSpaces(q) == {sp \in spaces : sp.project_id = q /\ sp.active = TRUE}

\* A step that is a call of one of the mapper operations ops.
MapStep(ops) == lastMap'.flip # lastMap.flip /\ lastMap'.op \in ops

\* C12: each project has at most one active Space and each external space id
\* at most one active Space; linking or creating a second Space for a project
\* that has an active one fails and leaves the spaces as they were.
C12_OneActiveSpacePerProject ==
    /\ [](/\ \A q \in Projects : Cardinality(ActiveSpaces(q)) <= 1
          /\ \A sid \in SpaceNames :
                Cardinality({sp \in spaces : sp.space_id = sid /\ sp.active}) <= 1)
    /\ [][(/\ MapStep({"link", "create_space"})
           /\ \E sp \in ActiveSpaces(lastMap'.project) :
                 sp.space_id # lastMap'.sid)
              => (/\ lastMap'.result = "error"
                  /\ spaces' = spaces
                  /\ syncEnabled' = syncEnabled)]_vars

C12_Witness ==
    /\ lastMap.op = "link"
    /\ lastMap.result = "error"
    /\ ActiveSpaces(lastMap.project) # {}
    /\ \A sp \in spaces : sp.space_id # lastMap.sid

\* C13: each task has at most one active Thread and no two Threads share a
\* thread_key; creating a Thread for a task that has one fails and creates no
\* record.
C13_OneThreadPerTask ==
    /\ [](/\ \A t \in Tasks :
                Cardinality({th \in threads : th.task_id = t /\ th.active}) <= 1
          /\ \A th1, th2 \in threads : th1.thread_key = th2.thread_key => th1 = th2)
    /\ [][(/\ MapStep({"create_thread"})
           /\ \E th \in threads : th.task_id = lastMap'.task)
              => (lastMap'.result # "ok" /\ threads' = threads)]_vars

C13_Witness ==
    /\ lastMap.op = "create_thread"
    /\ lastMap.result = "conflict"
    /\ Cardinality({th \in threads : th.task_id = lastMap.task}) = 1

\* C14: every Thread's space belongs to the project of the Thread's task.
C14_ThreadProjectConsistent ==
    \A th \in threads :
        \A sp \in spaces : sp.id = th.space_id => sp.project_id = taskProject[th.task_id]

\* The threads a step added.
NewThreads == threads' \ threads

\* A creation of the thread of task t that got past the project's sync switch.
ThreadCreation(t) ==
    \/ MapStep({"create_thread"}) /\ lastMap'.task = t
            /\ lastMap'.result # "sync_disabled"
    \/ MapStep({"task_create"}) /\ lastMap'.task = t /\ syncEnabled[lastMap'.project]

\* What C15 and its amendment share: a creation for a task without a Thread
\* and with an active Space adds exactly one Thread, keyed by the task's id.
C15_CreatesOne(t) ==
    (/\ ~\E th \in threads : th.task_id = t
     /\ ActiveSpaces(taskProject'[t]) # {})
        => /\ lastMap'.result = "ok"
           /\ threads \subseteq threads'
           /\ Cardinality(NewThreads) = 1
           /\ \A th \in NewThreads :
                 /\ th.task_id = t
                 /\ th.thread_key = (IF t = "task1" THEN "1" ELSE "2")
                 /\ th.active
                 /\ th.space_id \in {sp.id : sp \in ActiveSpaces(taskProject'[t])}

C16_NoSpaceNoThread ==
    [][\A t \in Tasks :
          (/\ MapStep({"create_thread", "task_create"}) /\ lastMap'.task = t
           /\ ~\E th \in threads : th.task_id = t
           /\ ActiveSpaces(taskProject'[t]) = {})
              => /\ threads' = threads
                 /\ lastMap'.op = "create_thread" =>
                       lastMap'.result \in {"no_space", "sync_disabled"}]_vars

C16_Witness ==
    /\ lastMap.op = "create_thread"
    /\ lastMap.result = "no_space"
    /\ \E sp \in spaces : sp.project_id = lastMap.project /\ ~sp.active
    /\ ~\E th \in threads : th.task_id = lastMap.task

\* The last call was a webhook request carrying a valid Bearer token.
Authorized(c) ==
    /\ c.op = "webhook"
    /\ cred.is_active
    /\ c.auth = <<"Bearer", cred.webhook_token>>

\* The body shapes a decoder has to reject as malformed.
MalformedShapes == {"bad_base64", "bad_utf8", "bad_json", "no_message_id"}

\* C17: an authenticated request whose envelope has malformed base64, a payload
\* that is not JSON, or no message_id is answered 400 and changes no event,
\* member or comment record.
C17_MalformedRejected ==
    [][(/\ lastCall' # lastCall
        /\ Authorized(lastCall')
        /\ lastCall'.shape \in MalformedShapes)
       => (/\ lastCall'.resp = Response("BAD_REQUEST", 400)
           /\ events' = events
           /\ members' = members
           /\ comments' = comments)]_vars

\* Message bytes that are not UTF-8 text or not a JSON document.
MalformedData(d) == ~d.utf8 \/ ~d.text.valid

\* C18: a queue message with an undecodable or non-JSON payload, or one the
\* webhook answered 400, is dropped: it is never negatively acknowledged and
\* the listener handles it at most once.
C18_MalformedDropped ==
    \A mid \in Ids :
        (/\ queue[mid].state # "none"
         /\ MalformedData(queue[mid].data) \/ queue[mid].seen = "BAD_REQUEST")
        => (queue[mid].nacks = 0 /\ queue[mid].attempts <= 1)

\* Message bytes that hold a well-formed event: UTF-8 text of a JSON object.
WellFormedEvent(d) == d.utf8 /\ d.text.valid /\ d.text.obj

\* The event a message's bytes stand for.
EventOf(d) == d.text.value

\* The listener posted message mid to the webhook in this step.
Forwarded(mid) ==
    /\ queue'[mid].attempts = queue[mid].attempts + 1
    /\ queue'[mid].seen # "unsent"

Unauthorized(c) ==
    /\ c.op = "webhook"
    /\ \/ Len(c.auth) < 2
       \/ c.auth[1] # "Bearer"
       \/ ~(cred.is_active /\ c.auth[2] = cred.webhook_token)

\* A step that left the event, member and comment records as they were.
NoRecordChange ==
    /\ events' = events
    /\ members' = members
    /\ comments' = comments
    /\ applied' = applied

\* C20 as stated: a request without a valid Bearer token is answered 401 and
\* changes no record, whatever its body.
C20_UnauthorizedAlways401 ==
    [][(lastCall' # lastCall /\ Unauthorized(lastCall'))
       => (lastCall'.resp = Response("UNAUTHORIZED", 401) /\ NoRecordChange)]_vars

\* C20, amended: a request without a valid Bearer token changes no record; it
\* is answered 401, except that a request with an empty body is answered 400.
C20_UnauthorizedNoChange ==
    [][(lastCall' # lastCall /\ Unauthorized(lastCall'))
       => (/\ NoRecordChange
           /\ ~lastCall'.accepted
           /\ lastCall'.resp = IF lastCall'.shape = "empty"
                                THEN Response("BAD_REQUEST", 400)
                                ELSE Response("UNAUTHORIZED", 401))]_vars

\* A well-formed event sent with a wrong token was answered 401 while an
\* earlier event is on record.
C20_Witness ==
    /\ lastCall.op = "webhook"
    /\ lastCall.auth = <<"Bearer", "tokX">>
    /\ lastCall.shape = "event"
    /\ lastCall.resp = Response("UNAUTHORIZED", 401)
    /\ \E mid \in Ids : events[mid].exists /\ lastCall.id # mid
    /\ ~events[lastCall.id].exists

\* The four definitive responses of the webhook.
DefinitiveResponses ==
    {Response("OK", 200), Response("UNAUTHORIZED", 401),
     Response("BAD_REQUEST", 400), Response("INTERNAL_ERROR", 500)}

\* C21: every webhook call is answered with one of OK(200), 401, 400 and 500,
\* and a call answered with status 200 left its event done or skipped (or
\* found it done or processing): a processing failure is never answered 200.
C21_DefinitiveResponse ==
    lastCall.op = "webhook"
    => (/\ lastCall.resp \in DefinitiveResponses
        /\ lastCall.resp.code = 200
           => (/\ lastCall.accepted
               /\ StatusOf(events, lastCall.id) \in {"done", "skipped", "processing"}))

\* No value occurs twice in the sequence.
Distinct(seq) == \A i, j \in 1 .. Len(seq) : i # j => seq[i] # seq[j]

\* Worker p's transaction ends in this step.
TxEnds(p) == txn[p].pc = "open" /\ txn'[p].pc = "idle"

StoredEvent(ev) == json_loads(ev.payload_json).value

\* The events whose processing raises, given the member table: a null space
\* object, and a MEMBER_ADDED that has to create a member from a null name or
\* that carries a role outside the selection.
Raises(ej, mem) ==
    \/ ej.space = Null
    \/ /\ ej.eventType = "MEMBER_ADDED"
       /\ ej.space = "spaces/A"
       /\ ~Falsy(ej.mEmail)
       /\ \/ Get(ej.mRole, "MEMBER") \notin RoleSelection
          \/ /\ ej.mName = <<Null>>
             /\ ~\E m \in mem : m.space_id = "sp1" /\ m.email = ej.mEmail

\* The step ran the router on event mid: a first delivery, or a retry of an
\* event in error.
Routes(mid) ==
    /\ lastCall'.id = mid
    /\ \/ lastCall'.op = "webhook" /\ lastCall'.accepted /\ lastCall'.pre = "none"
       \/ lastCall'.op = "retry" /\ lastCall'.pre = "error"

HandledTypes == {"MESSAGE_CREATED", "MESSAGE_UPDATED", "MEMBER_ADDED", "MEMBER_REMOVED"}

\* C24: an event whose type is none of the four handled ones (or absent) ends
\* in status skipped with event_type recorded (UNKNOWN when absent), is
\* answered as a success, and changes no member or comment.
C24_UnknownTypeSkipped ==
    [][\A mid \in Ids :
          (/\ Routes(mid)
           /\ events'[mid].exists
           /\ Get(StoredEvent(events'[mid]).eventType, "UNKNOWN") \notin HandledTypes)
          => (/\ events'[mid].status = "skipped"
              /\ events'[mid].event_type = Get(StoredEvent(events'[mid]).eventType, "UNKNOWN")
              /\ lastCall'.resp = Outcome(TRUE)
              /\ members' = members
              /\ comments' = comments)]_vars

\* The step is a click on the retry button of event mid.
RetryStep(mid) ==
    /\ lastCall'.op = "retry"
    /\ lastCall'.id = mid
    /\ lastMap' = lastMap

\* What processing the stored payload of ev as a first delivery would give in
\* the current state.
FirstProcessing(ev) ==
    process_incoming(NewEvent(StoredEvent(ev), Get(StoredEvent(ev).eventType, "UNKNOWN")),
                     StoredEvent(ev), members, comments, spaces, threads)

\* C25: retrying an event in error resets it to new and ends with the status
\* and the member and comment changes that processing its stored payload as a
\* first delivery gives; retrying an event in another status is refused and
\* changes nothing.
C25_RetryReplays ==
    [][\A mid \in Ids :
          RetryStep(mid)
          => IF events[mid].status = "error"
             THEN /\ <<"error", "new", "retry">> \in trans'
                  /\ events'[mid].status = FirstProcessing(events[mid]).ev.status
                  /\ members' = FirstProcessing(events[mid]).members
                  /\ comments' = FirstProcessing(events[mid]).comments
             ELSE /\ lastCall'.resp = Outcome(FALSE)
                  /\ events' = events
                  /\ members' = members
                  /\ comments' = comments]_vars

\* The members of a table recorded for a space and an address.
MembersOf(mem, sp, email) == {m \in mem : m.space_id = sp /\ m.email = email}

\* The event names the space the active Space record sp1 stands for.
ResolvesSpace(ej) ==
    \E sp \in spaces : sp.active /\ sp.space_id = ej.space /\ sp.id = "sp1"

\* C26: there is never more than one Member per (space, email); processing a
\* MEMBER_ADDED event for an address on a resolved space leaves exactly one
\* Member for the pair, active and with the event's role (MEMBER when the
\* event has none); processing MEMBER_REMOVED creates no Member and leaves an
\* existing one in state removed.
C26_MemberUpsert ==
    /\ [](\A m, n \in members :
             (m.space_id = n.space_id /\ m.email = n.email) => m = n)
    /\ [][\A mid \in Ids :
            (Routes(mid) /\ events'[mid].exists)
            => LET ej == StoredEvent(events'[mid])
               IN  /\ (ej.eventType = "MEMBER_ADDED" /\ ResolvesSpace(ej)
                           /\ ~Falsy(ej.mEmail))
                      => \E m \in members' :
                            /\ MembersOf(members', "sp1", ej.mEmail) = {m}
                            /\ m.state = "active"
                            /\ m.role = Get(ej.mRole, "MEMBER")
                   /\ (ej.eventType = "MEMBER_REMOVED" /\ ResolvesSpace(ej)
                           /\ ~Falsy(ej.mEmail))
                      => /\ Cardinality(members') = Cardinality(members)
                         /\ \A m \in MembersOf(members', "sp1", ej.mEmail) :
                               m.state = "removed"]_vars

\* The event names thread 1 of the resolved space, the Thread bound to task1.
ResolvesThread(ej) == ResolvesSpace(ej) /\ ej.thread = ThreadK1

\* The event is a message event whose thread resolves, routed in this step.
RoutesMessage(mid) ==
    /\ Routes(mid)
    /\ events'[mid].exists
    /\ StoredEvent(events'[mid]).eventType \in {"MESSAGE_CREATED", "MESSAGE_UPDATED"}
    /\ ResolvesThread(StoredEvent(events'[mid]))

\* The comment the event stands for: on task1, by the user with the event's
\* address, or by nobody when no user has it.
CommentOf(ej) ==
    [res_id |-> "task1",
     author_id |-> IF ej.email = "u1@x.com" THEN "partner1" ELSE NoPartner,
     email_from |-> Get(ej.email, NoText),
     body |-> IF ~Falsy(ej.text) THEN ej.text ELSE Get(ej.card, NoText)]

ThreadOf(post) == CHOOSE th \in threads : th.id = post.thread
SpaceOfThread(th) == CHOOSE sp \in spaces : sp.id = th.space_id

KnownFields ==
    {"name", "user_id", "stage_id", "priority", "date_deadline", "description", "tag_ids"}
PriorityLine(v) ==
    [label |-> "Priority",
     value |-> IF v = "0" THEN "Low" ELSE IF v = "1" THEN "Normal"
               ELSE IF v = "2" THEN "High" ELSE v]

\* C29: a write on a task bound to a thread, with an access token stored, posts
\* exactly one message to that thread when it changes a known field, with one
\* line per changed known field (priority 2 gives the line Priority: High),
\* and posts none when it changes no known field.
C29_OneMessagePerWrite ==
    (lastPush.op = "write" /\ lastPush.thread # 0 /\ lastPush.token) =>
        IF lastPush.fields \cap KnownFields = {}
        THEN Len(sent) = lastPush.before
        ELSE /\ Len(sent) = lastPush.before + 1
             /\ sent[Len(sent)].thread = lastPush.thread
             /\ Cardinality(sent[Len(sent)].request.message_data.text.lines)
                   = Cardinality(lastPush.fields \cap KnownFields)
             /\ \A l \in sent[Len(sent)].request.message_data.text.lines :
                   \E f \in lastPush.fields \cap KnownFields : l.label = field_mapping[f]
             /\ lastPush.priority # Absent =>
                   PriorityLine(lastPush.priority)
                       \in sent[Len(sent)].request.message_data.text.lines

\* The requests posted for thread i that the chat API accepted.
Accepted(i) == {k \in 1 .. Len(sent) : sent[k].thread = i /\ sent[k].ok}
Latest(S) == IF S = {} THEN NoMessageId ELSE CHOOSE k \in S : \A j \in S : j <= k

\* C30: a thread's message_count is the number of its sends that succeeded and
\* last_message_id names the latest of them: a successful push adds one and
\* records the message, a failed push changes neither.
C30_CountsSuccessfulSends ==
    \A i \in ThreadIds :
        /\ message_count[i] = Cardinality(Accepted(i))
        /\ last_message_id[i] = Latest(Accepted(i))

\* A thread with one accepted and one failed send.
C30_Witness ==
    \E i \in ThreadIds :
        /\ message_count[i] = 1
        /\ Len(sent) = 2
        /\ sent[1].thread = i /\ sent[1].ok
        /\ sent[2].thread = i /\ ~sent[2].ok
        /\ last_message_id[i] = 1

\* C31: gchat.event.log rows are never deleted: an event that exists still
\* exists after every operation, the deletion of its space or thread included.
C31_EventsNeverDeleted ==
    [][\A mid \in Ids : events[mid].exists => events'[mid].exists]_vars

\* The OAuth fields of a configuration record.
Tokens(c) == <<c.access_token, c.refresh_token, c.token_expiry>>

\* C32: the callback of an authorization request stores the tokens on the
\* configuration the request was started for (its state parameter) and leaves
\* the tokens of the other configuration as they were.
C32_TokensOnMatchingConfig ==
    [][(oauthFlow # NoFlow /\ oauthFlow' = NoFlow) =>
          /\ oauthFlow = "config_1" =>
                (Tokens(cred') # Tokens(cred) /\ Tokens(cred2') = Tokens(cred2))
          /\ oauthFlow = "config_2" =>
                (Tokens(cred2') # Tokens(cred2) /\ Tokens(cred') = Tokens(cred))]_vars

\* C33: an active subscription never stays active past its expires_at (it
\* is renewed before): in every state an active subscription with an
\* expires_at has not yet reached it.
C33_NeverActivePastExpiry ==
    \A i \in SpaceRecIds :
        (subs[i].exists /\ subs[i].status = "active" /\ subs[i].expires_at.set)
            => day <= subs[i].expires_at.at

\* C34: no inactive space has a subscription bound to it.
C34_NoSubscriptionOnInactiveSpace ==
    \A sp \in spaces : ~sp.active => ~subs[sp.id].exists

\* C35: when the subscriber's resources are released no callback is still
\* running: every callback in flight at the shutdown signal has completed.
C35_CallbacksDoneBeforeClose == listener = "closed" => inflight = {}

\* The acknowledgement calls made on a message so far.
Decisions(mid) == queue[mid].acks + queue[mid].nacks

\* C39: every callback issues exactly one acknowledgement call: the calls made
\* on a message are as many as the callbacks completed for it, and one
\* callback makes one call, an ack or a nack.
C39_OneDecisionPerCallback ==
    /\ [](\A mid \in Ids :
            Decisions(mid) = handed[mid] - (IF mid \in inflight THEN 1 ELSE 0))
    /\ [][\A mid \in Ids :
             (mid \in inflight /\ mid \notin inflight') =>
                 \/ /\ queue'[mid].acks = queue[mid].acks + 1
                    /\ queue'[mid].nacks = queue[mid].nacks
                 \/ /\ queue'[mid].acks = queue[mid].acks
                    /\ queue'[mid].nacks = queue[mid].nacks + 1]_vars

\* A message that was nacked by one callback and acked by the next.
C39_Witness ==
    \E mid \in Ids :
        /\ handed[mid] = 2
        /\ mid \notin inflight
        /\ queue[mid].nacks = 1
        /\ queue[mid].acks = 1

\* C36: a failed send is raised by push_task_update and never reported as
\* success; task create and task write log it and continue, so the task is
\* created or written and the call returns normally whatever the send did.
C36_FailureRaisedTaskPersisted ==
    /\ (lastPush.pushed /\ lastPush.failed) => lastPush.raised
    /\ (lastPush.raised /\ lastPush.op \in {"sync", "wizard"}) => lastPush.returned = "error"
    /\ lastPush.op = "write" =>
          /\ lastPush.returned = "ok"
          /\ "name" \in lastPush.fields => taskName[lastPush.task] = "New"
    /\ lastPush.op = "create" =>
          /\ lastPush.returned = "ok"
          /\ taskProject[lastPush.task] # NoProject
          /\ taskName[lastPush.task] = "Task"

\* A write of the task's name whose send the chat API rejected.
C36_Witness ==
    /\ lastPush.op = "write"
    /\ lastPush.pushed /\ lastPush.failed /\ lastPush.token /\ lastPush.raised
    /\ "name" \in lastPush.fields
    /\ taskName[lastPush.task] = "New"
    /\ Len(sent) = lastPush.before + 1
    /\ ~sent[Len(sent)].ok

\* A map of changed fields restricted to the known fields.
RestrictToKnown(vals) == [f \in (DOMAIN vals) \cap KnownFields |-> vals[f]]

\* Maps of changed fields: every subset of three known and two unknown
\* fields, with either of two values.
FormatInputs ==
    UNION {[fs -> {"2", "text"}] : fs \in SUBSET {"name", "priority", "tag_ids", "message", "color"}}

\* C37: the formatted message of any map of changed fields is the message of
\* the map restricted to the known fields, the message a push posted is that
\* of the restricted map, and a push whose send succeeded did not raise,
\* whatever unknown fields its map held.
C37_UnknownFieldsIgnored ==
    /\ \A th \in threads, vals \in FormatInputs :
          _format_task_update_message(th, vals)
              = _format_task_update_message(th, RestrictToKnown(vals))
    /\ (lastPush.pushed /\ lastPush.token /\ Len(sent) = lastPush.before + 1) =>
          LET req == sent[Len(sent)]
              th == CHOOSE x \in threads : x.id = req.thread
          IN  req.request.message_data.text
                  = _format_task_update_message(th, RestrictToKnown(lastPush.vals))
    /\ (lastPush.pushed /\ ~lastPush.failed) => ~lastPush.raised

\* The message wizard pushed a map holding only an unknown field: the request
\* went out with the header alone and the call did not fail.
C37_Witness ==
    /\ lastPush.op = "wizard" /\ lastPush.pushed
    /\ DOMAIN lastPush.vals = {"message"}
    /\ ~lastPush.failed /\ ~lastPush.raised /\ lastPush.returned = "ok"
    /\ Len(sent) = lastPush.before + 1
    /\ sent[Len(sent)].ok
    /\ sent[Len(sent)].request.message_data.text.lines = {}

\* The ends of a call on a timeout or network failure, and on a credential
\* that cannot be repaired without the user.
NetworkResults == {"network_error", "refresh_network"}
CredentialResults == {"invalid_grant", "no_refresh_token"}

\* C38: a call that ended on a timeout or network failure raised an error its
\* caller can tell from the error of a credential failure.
C38_NetworkErrorDistinct ==
    \A p \in Procs :
        call[p].result \in NetworkResults =>
            \A r \in CredentialResults :
                RaisedError(call[p].op, call[p].result) # RaisedError(call[p].op, r)

\* The rest of C38: a step that ends a call on a network failure leaves the
\* credential as it was, and a refresh that succeeds changes access_token and
\* token_expiry only.
C38_CredentialKeptOnFailure ==
    [][\A p \in Procs :
          /\ (call[p].result = "none" /\ call'[p].result \in NetworkResults)
                => cred' = cred
          /\ (pc[p] = "refreshing" /\ call'[p].result = "none" /\ pc'[p] # "refreshing")
                => cred' = [cred EXCEPT !.access_token = cred'.access_token,
                                        !.token_expiry = cred'.token_expiry]]_vars

\* C40: an event carries an error detail exactly when its status is error; an
\* event that a retry brought to done or skipped carries none.
C40_ErrorDetailIffError ==
    \A mid \in Ids :
        events[mid].exists =>
            (events[mid].error # NoText <=> events[mid].status = "error")

====
